---- MODULE Spec2Model ----
(***************************************************************************)
(* Verification model of the control plane in src/src.                     *)
(*                                                                         *)
(* Part 1: the Process Supervisor (ProcessManager.cpp).  The supervisor    *)
(* lives on the Qt main thread: its public operations, its timer slots     *)
(* (CheckHeartbeat, MonitorProcesses) and the QProcess signal handlers are *)
(* all run to completion there, so each is one action.  QProcess emits     *)
(* started()/errorOccurred()/finished() synchronously from inside          *)
(* waitForStarted()/waitForFinished(); the handlers connected to them in   *)
(* CreateQProcess therefore run nested inside StartProcess, StopProcess    *)
(* and RestartProcess, while process_mutex_ (a non-recursive QMutex) is    *)
(* still held by the caller.                                               *)
(***************************************************************************)
EXTENDS Integers, Sequences, FiniteSets, TLC

\* ------------------------------------------------------------------ bounds
\* Process ids the operator may use.
Ids == {"worker1"}
\* QProcess objects that exist at once and are still running or still
\* referenced (by a record or by a StopAllProcesses call in progress).
MaxProcs == 2
\* Values the operator passes to SetMaxRestartCount.
MaxCountArgs == {0, 2}

\* ------------------------------------------------------- program constants
\* ProcessManager::ProcessManager, member initialisers.
heartbeat_timeout_ms_ == 30000
heartbeat_check_interval_ms_ == 10000
\* AddProcess: info.max_restart_count = 5.
kAddDefaultMaxRestart == 5
\* StartProcess: info.max_restart_count = 3.
kStartDefaultMaxRestart == 3

\* enum ProcessStatus
kNotRunning == "NotRunning"
kStarting == "Starting"
kRunning == "Running"
kStopping == "Stopping"
kError == "Error"
kCrashed == "Crashed"
ProcessStatus == {kNotRunning, kStarting, kRunning, kStopping, kError, kCrashed}

\* QProcess::ExitStatus
NormalExit == "NormalExit"
CrashExit == "CrashExit"

\* QProcess::ProcessState of a QProcess object, plus Deleted for an object
\* destroyed by deleteLater() and Free for a handle that names no object.
\* An object kept in process_info_map_ is never in QProcess::Starting:
\* StartProcess stores it only after waitForStarted().
QNotRunning == "QNotRunning"
QRunning == "QRunning"
QDeleted == "QDeleted"
QFree == "QFree"

\* info.process == nullptr
NullProcess == 0

VARIABLES
    process_info_map_,   \* QHash<QString, ProcessInfo>: function on the registered ids
    qprocess,            \* the QProcess objects: handle -> state
    hung,                \* the main thread is blocked for ever on process_mutex_
    stop_all,            \* position of a StopAllProcesses call in progress
    emitted,             \* signals emitted by the last step, in order
    last,                \* the last step: operation, id, return value, status before
    restart_budget,      \* per id: the max restart count the operator last asked for (AddProcess and
                         \* StartProcess defaults, SetMaxRestartCount) less the automatic respawns
                         \* since; -1 once they exceed it
    stop_requested,      \* per id: StopProcess was invoked on the live process and no explicit start since
    last_timeout         \* per id: ms since the last HeartbeatTimeout signal of the current watch, while
                         \* that is less than the timeout; else -1

supervisor_vars == <<process_info_map_, qprocess, hung, stop_all, emitted, last,
                     restart_budget, stop_requested, last_timeout>>

\* Part 2: one IpcMessage on its way through serialisation (IpcMessage.cpp).
VARIABLES
    message,             \* the IpcMessage a caller serialises
    wire,                \* what serialisation produced (a QJsonObject or a QByteArray) as it reaches
                         \* the deserialiser, or nothing yet
    received             \* the IpcMessage deserialisation returned, or nothing yet

message_vars == <<message, wire, received>>

\* Part 3: the message channel (LocalSocketIpcCommunication.cpp).
VARIABLES
    connection_state_,        \* ConnectionState
    server_name_,             \* the endpoint name initialize() stored
    listening,                \* local_server_->isListening()
    clients_,                 \* std::map<QString, unique_ptr<QLocalSocket>>: internal id -> socket state
    topic_subscriptions_,     \* QMap<QString, QList<QString>>: topic -> subscriber ids, in order
    logical_to_internal_id_,  \* QMap<QString, QString>
    internal_to_logical_id_,  \* QMap<QString, QString>
    shutting_down_,           \* std::atomic_bool
    accepted,                 \* number of connections accepted so far (each gets a fresh UUID)
    channel_crashed,          \* the coordinator process has died of a use of a destroyed socket
    channel_emitted,          \* signals the channel emitted in the last step, in order
    channel_last,             \* the last step: operation, arguments, return value, state before, writes
    stopped_clients,          \* internal ids of the connections a stop() that returned found in clients_
    receive_buffers_,         \* QHash<QLocalSocket*, QByteArray>: the entries whose key is a socket of
                              \* clients_, by the internal id of that socket
    freed_buffers,            \* the non-empty entries of receive_buffers_ whose key is the address of
                              \* a socket that was destroyed
    channel_peers,            \* what the peers of this behaviour send: the chunks of bytes one read
                              \* delivers, and whether the streams are recorded
    peer_sent,                \* per connection: the bytes its peer has sent so far
    dispatched                \* per connection: the frames readyRead has dispatched so far

channel_vars == <<connection_state_, server_name_, listening, clients_, topic_subscriptions_,
                  logical_to_internal_id_, internal_to_logical_id_, shutting_down_, accepted,
                  channel_crashed, channel_emitted, channel_last, stopped_clients,
                  receive_buffers_, freed_buffers, channel_peers, peer_sent, dispatched>>

\* Part 4: the observable store (DataStore.cpp).
VARIABLES
    data_,               \* QHash<QString, QVariant>: function on the keys held
    subscribers_,        \* QHash<QString, QList<SubscriberInfo>>: pattern -> subscribers, in order
    store_last,          \* the last call: operation, arguments, return value, the valueChanged
                         \* signals it emitted and how often it invoked each subscription's callback
    store_prev,          \* the call before the last, if that was a setValue: its arguments, what it
                         \* changed and the callbacks it invoked
    store_callers,       \* what the callers of the store pass in this behaviour: the keys, the
                         \* values, the patterns and the subscribers
    store_queue,         \* the event queue of the store's thread: the calls posted with
                         \* Qt::QueuedConnection that have not run yet, oldest first
    snapshot_,           \* the QJsonObject the last createSnapshot returned, with the content
                         \* of data_ at that call
    store_log            \* per key, the mutations of data_ in the order they were committed and
                         \* the valueChanged notifications in the order they were delivered

store_vars == <<data_, subscribers_, store_last, store_prev, store_callers, store_queue,
                snapshot_, store_log>>

\* Part 5: the log aggregator (LogAggregator.cpp) and its backends
\* (ILogStorage.h, FileLogStorage.cpp).
VARIABLES
    m_storage_instances, \* std::map<QString, std::unique_ptr<ILogStorage>>: process id -> the
                         \* backend it owns, a backend being named by its position in storages
    storages,            \* every backend created so far, in order of creation: its flags, its
                         \* connection to the aggregator's slots and the entries it holds
    log_last             \* the last call on the aggregator: operation, arguments, return value,
                         \* result, the signals the aggregator emitted and the backends whose
                         \* writeLog it called

log_vars == <<m_storage_instances, storages, log_last>>

vars == <<supervisor_vars, message_vars, channel_vars, store_vars, log_vars>>

\* ----------------------------------------------------------------- signals
Signal(sig, id, old, new, n) == [sig |-> sig, id |-> id, old |-> old, new |-> new, n |-> n]
ProcessStatusChanged(id, old, new) == Signal("ProcessStatusChanged", id, old, new, 0)
ProcessStartedSig(id) == Signal("ProcessStarted", id, "", "", 0)
ProcessStoppedSig(id) == Signal("ProcessStopped", id, "", "", 0)
ProcessCrashedSig(id) == Signal("ProcessCrashed", id, "", "", 0)
ProcessAutoRestarted(id, n) == Signal("ProcessAutoRestarted", id, "", "", n)
HeartbeatTimeoutSig(id) == Signal("HeartbeatTimeout", id, "", "", 0)

\* ------------------------------------------------- the state a call threads
\* A call works on a record S: the map, the QProcess objects, the signals
\* emitted so far, whether the thread is now blocked, the value returned by
\* the innermost call that finished (ret), the ids for which
\* ExecuteAutoRestart was invoked (tried) and succeeded (restarted), the
\* number of QProcess::start() calls made (starts), whether the call
\* needed more QProcess objects than MaxProcs (overflow), and whether it
\* entered QProcess::waitForStarted() or waitForFinished() on a running
\* process while its QMutexLocker held process_mutex_ (locked_wait).
\*
\* Time is kept relative.  The code reads the clock only to stamp
\* last_heartbeat and to compare current_time - last_heartbeat with the
\* timeout, so a record carries heartbeat_age = current_time - last_heartbeat
\* in place of last_heartbeat; the clock advances by one check interval each
\* time heartbeat_timer_ fires.
Enter ==
    [map |-> process_info_map_, q |-> qprocess, emitted |-> <<>>, hung |-> FALSE,
     ret |-> FALSE, tried |-> {}, restarted |-> {}, starts |-> 0, overflow |-> FALSE,
     locked_wait |-> FALSE]

Emit(S, sig) == [S EXCEPT !.emitted = Append(@, sig)]
Return(S, value) == [S EXCEPT !.ret = value]

\* sender_id_to_process_id_ is declared in ProcessManager.h and read in
\* StartProcess, and nothing ever inserts into it.
sender_id_to_process_id_ == {}

GetProcessIdByQProcess(S, process) ==
    IF \E id \in DOMAIN S.map : S.map[id].process = process
    THEN CHOOSE id \in DOMAIN S.map : S.map[id].process = process
    ELSE ""

\* Mutant of UpdateProcessStatus: the event is emitted without the
\* old_status != new_status test.
UpdateProcessStatusAlways(S, process_id, new_status) ==
    IF process_id \in DOMAIN S.map
    THEN Emit([S EXCEPT !.map[process_id].status = new_status],
              ProcessStatusChanged(process_id, S.map[process_id].status, new_status))
    ELSE S

UpdateProcessStatus(S, process_id, new_status) ==
    IF process_id \in DOMAIN S.map /\ S.map[process_id].status # new_status
    THEN Emit([S EXCEPT !.map[process_id].status = new_status],
              ProcessStatusChanged(process_id, S.map[process_id].status, new_status))
    ELSE S

HandleProcessStarted(S, process) ==
    LET process_id == GetProcessIdByQProcess(S, process)
    IN IF process_id = "" THEN S
       ELSE Emit(UpdateProcessStatus(S, process_id, kRunning), ProcessStartedSig(process_id))

\* The slot takes no lock.
HandleProcessError(S, process) ==
    LET process_id == GetProcessIdByQProcess(S, process)
    IN IF process_id = "" THEN S
       ELSE Emit(UpdateProcessStatus(S, process_id, kError), ProcessCrashedSig(process_id))

\* CreateQProcess: a handle that names no object yet (NullProcess when the
\* model has none left).
NewQProcess(S) ==
    IF \E h \in DOMAIN S.q : S.q[h] = QFree
    THEN CHOOSE h \in DOMAIN S.q : S.q[h] = QFree /\ \A g \in DOMAIN S.q : S.q[g] = QFree => h <= g
    ELSE NullProcess

\* Mutant of AlreadyActive: the test forgets kStarting.
AlreadyActiveOnlyRunning(S, process_id) ==
    /\ process_id \in DOMAIN S.map
    /\ S.map[process_id].status = kRunning

\* StartProcess, lines 127-133: the id is already Running or Starting.
AlreadyActive(S, process_id) ==
    /\ process_id \in DOMAIN S.map
    /\ S.map[process_id].status \in {kRunning, kStarting}

\* Mutant of NewProcessInfo: a start leaves the record no restart at all.
NewProcessInfoNoRestarts(auto_restart, process) ==
    [status |-> kStarting, heartbeat_age |-> 0, restart_count |-> 0,
     auto_restart |-> auto_restart, max_restart_count |-> 0,
     process |-> process]

\* StartProcess, lines 142-153: the local ProcessInfo.
NewProcessInfo(auto_restart, process) ==
    [status |-> kStarting, heartbeat_age |-> 0, restart_count |-> 0,
     auto_restart |-> auto_restart, max_restart_count |-> kStartDefaultMaxRestart,
     process |-> process]

\* StartProcess, lines 123 and 164: the QMutexLocker taken on entry is still
\* in scope when waitForStarted(5000) is called.  StopProcess (183, 214, 219,
\* 223) and RestartProcess (239, 255, 257) call waitForFinished() in the
\* same way; RestartProcess unlocks only after its waits (262).
WaitUnderLock(S) == [S EXCEPT !.locked_wait = TRUE]

\* StartProcess, lines 164-170: waitForStarted() failed.  errorOccurred() was
\* emitted for a QProcess that no record holds; the object is deleted.
StartFailed(S, process_id, process) ==
    Return(UpdateProcessStatus(HandleProcessError(WaitUnderLock([S EXCEPT !.starts = @ + 1]),
                                                  process),
                               process_id, kError),
           FALSE)

\* StartProcess, line 174: process_info_map_[process_id] = info.
StoreProcessInfo(S, process_id, info) ==
    Return([S EXCEPT !.map = (process_id :> info) @@ S.map], TRUE)

\* StartProcess, lines 164-178: the process started.  started() was emitted
\* inside the wait, while the new ProcessInfo was still a local.
StartSucceeded(S, process_id, auto_restart, process) ==
    StoreProcessInfo(HandleProcessStarted(WaitUnderLock([S EXCEPT !.starts = @ + 1,
                                                                  !.q[process] = QRunning]),
                                          process),
                     process_id, NewProcessInfo(auto_restart, process))

\* StartProcess(process_id, .., auto_restart); started is what
\* waitForStarted(5000) returns.
StartProcess(S, process_id, auto_restart, started) ==
    IF AlreadyActive(S, process_id) THEN Return(S, FALSE)
    ELSE IF process_id \in sender_id_to_process_id_ THEN Return(S, FALSE)
    ELSE IF NewQProcess(S) = NullProcess THEN [S EXCEPT !.overflow = TRUE]
    ELSE IF ~started THEN StartFailed(S, process_id, NewQProcess(S))
    ELSE StartSucceeded(S, process_id, auto_restart, NewQProcess(S))

\* What the environment decides during one call: whether the OS process
\* exits during the first wait (1), during the second (2) or outlives both
\* (0); how it exits; and whether a QProcess started by the call starts.
Env == [dies : {0, 1, 2}, exit : {NormalExit, CrashExit}, started : BOOLEAN]

RECURSIVE HandleProcessFinished(_, _, _, _, _)

\* The OS process behind a QProcess has exited: the object is NotRunning and,
\* on a crash exit, emits errorOccurred(Crashed) before finished().
QProcessExit(S, process, env) ==
    IF env.exit = CrashExit
    THEN HandleProcessError([S EXCEPT !.q[process] = QNotRunning], process)
    ELSE [S EXCEPT !.q[process] = QNotRunning]

\* A call returns its value unless the thread is blocked inside it.
Unblocked(S, value) == IF S.hung THEN S ELSE Return(S, value)

\* QProcess::waitForFinished(msecs) called while process_mutex_ is held.  It
\* returns false at once when the process is not running, false on timeout,
\* and otherwise emits errorOccurred(Crashed) (on a crash exit) and
\* finished() before it returns true; both slots run inside the wait.
WaitForFinished(S, process, exits, env) ==
    IF S.q[process] # QRunning THEN Return(S, FALSE)
    ELSE IF ~exits THEN Return(WaitUnderLock(S), FALSE)
    ELSE Unblocked(HandleProcessFinished(QProcessExit(WaitUnderLock(S), process, env), process,
                                         env.exit, TRUE, env),
                   TRUE)

\* kill() and the second wait, made when the first wait returned false.
KillAndWait(S, process, env) ==
    IF S.hung \/ S.ret THEN S ELSE WaitForFinished(S, process, env.dies = 2, env)

\* RestartProcess, lines 252-259: terminate(), wait, kill(), wait.
\* info.status is not touched.
RestartStop(S, process_id, env) ==
    LET info == S.map[process_id]
    IN IF info.process # NullProcess /\ info.status # kNotRunning
       THEN KillAndWait(WaitForFinished([S EXCEPT !.map[process_id].auto_restart = FALSE],
                                        info.process, env.dies = 1, env),
                        info.process, env)
       ELSE S

\* RestartProcess, lines 262-264: StartProcess(process_id, .., true).
RestartStart(S, process_id, started) ==
    IF S.hung THEN S ELSE StartProcess(S, process_id, TRUE, started)

\* RestartProcess, lines 266-273: restart_count++ and the event.
CountRestart(S, process_id) ==
    IF S.hung \/ S.overflow \/ ~S.ret \/ process_id \notin DOMAIN S.map THEN S
    ELSE Emit([S EXCEPT !.map[process_id].restart_count = @ + 1],
              ProcessAutoRestarted(process_id, S.map[process_id].restart_count + 1))

\* RestartProcess(process_id)
RestartProcess(S, process_id, env) ==
    IF process_id \notin DOMAIN S.map THEN Return(S, FALSE)
    ELSE CountRestart(RestartStart(RestartStop(S, process_id, env), process_id, env.started),
                      process_id)

\* Bookkeeping: ExecuteAutoRestart was invoked for the id, and it succeeded.
MarkTried(S, process_id) == [S EXCEPT !.tried = @ \cup {process_id}]
MarkRestarted(S, process_id) ==
    IF ~S.hung /\ ~S.overflow /\ S.ret THEN [S EXCEPT !.restarted = @ \cup {process_id}] ELSE S

\* The test made before every automatic restart.
RestartAllowed(info) == info.restart_count < info.max_restart_count

ExecuteAutoRestart(S, process_id, env) ==
    IF process_id \notin DOMAIN S.map THEN Return(MarkTried(S, process_id), FALSE)
    ELSE IF ~RestartAllowed(S.map[process_id]) THEN Return(MarkTried(S, process_id), FALSE)
    ELSE MarkRestarted(RestartProcess(MarkTried(S, process_id), process_id, env), process_id)

\* HandleProcessFinished, lines 479-489: after the status is Crashed and
\* ProcessCrashed is emitted.
AfterCrash(S, process_id, env) ==
    IF S.map[process_id].auto_restart /\ RestartAllowed(S.map[process_id])
    THEN ExecuteAutoRestart(S, process_id, env)
    ELSE Emit(S, ProcessStoppedSig(process_id))

\* HandleProcessFinished(exit_code, exit_status), slot of QProcess::finished.
\* locked: the slot runs nested inside a wait of a caller that holds
\* process_mutex_; its QMutexLocker then never returns.
HandleProcessFinished(S, process, exit_status, locked, env) ==
    LET process_id == GetProcessIdByQProcess(S, process)
    IN IF process_id = "" THEN S
       ELSE IF locked THEN [S EXCEPT !.hung = TRUE]
       ELSE IF exit_status = CrashExit
       THEN AfterCrash(Emit(UpdateProcessStatus(S, process_id, kCrashed),
                            ProcessCrashedSig(process_id)),
                       process_id, env)
       ELSE Emit(UpdateProcessStatus(S, process_id, kNotRunning), ProcessStoppedSig(process_id))

\* The event loop notices that the OS process behind a QProcess object has
\* exited; no lock is held.
ProcessDied(S, process, env) ==
    HandleProcessFinished(QProcessExit(S, process, env), process, env.exit, FALSE, env)

\* Mutant of DisableAutoRestart: StopProcess leaves auto_restart as it is.
KeepAutoRestart(S, process_id) == S

\* StopProcess, line 209: info.auto_restart = false.
DisableAutoRestart(S, process_id) == [S EXCEPT !.map[process_id].auto_restart = FALSE]

\* StopProcess, lines 211-226: kill() or terminate(), the wait, and without
\* force_kill the escalation to kill() with the second wait.
StopWaits(S, process, force_kill, env) ==
    IF force_kill THEN WaitForFinished(S, process, env.dies = 1, env)
    ELSE KillAndWait(WaitForFinished(S, process, env.dies = 1, env), process, env)

\* StopProcess, lines 200-234: the status is Stopping.
StopStopping(S, process_id, force_kill, env) ==
    IF S.map[process_id].process = NullProcess
    THEN Return(UpdateProcessStatus(S, process_id, kNotRunning), FALSE)
    ELSE StopWaits(DisableAutoRestart(S, process_id), S.map[process_id].process, force_kill, env)

\* StopProcess(process_id, force_kill, timeout_ms)
StopProcess(S, process_id, force_kill, env) ==
    IF process_id \notin DOMAIN S.map THEN Return(S, FALSE)
    ELSE IF S.map[process_id].status \in {kNotRunning, kStopping} THEN Return(S, TRUE)
    ELSE StopStopping(UpdateProcessStatus(S, process_id, kStopping), process_id, force_kill, env)

\* CheckHeartbeat(): the loop over timeout_processes.  order is the order in
\* which the QHash is walked; envs gives the environment's choices for each
\* restart the sweep attempts.
\* CheckHeartbeat, lines 597-608: HeartbeatTimeout was emitted for the id.
TimeoutRestart(S, process_id, env) ==
    IF /\ process_id \in DOMAIN S.map
       /\ S.map[process_id].auto_restart
       /\ RestartAllowed(S.map[process_id])
    THEN ExecuteAutoRestart(S, process_id, env)
    ELSE S

RECURSIVE HeartbeatLoop(_, _, _)
HeartbeatLoop(S, timeout_processes, envs) ==
    IF timeout_processes = <<>> \/ S.hung \/ S.overflow THEN S
    ELSE HeartbeatLoop(TimeoutRestart(Emit(S, HeartbeatTimeoutSig(Head(timeout_processes))),
                                      Head(timeout_processes), envs[Head(timeout_processes)]),
                       Tail(timeout_processes), envs)

TimedOut(S, process_id) ==
    /\ process_id \in DOMAIN S.map
    /\ S.map[process_id].status = kRunning
    /\ S.map[process_id].heartbeat_age > heartbeat_timeout_ms_

CheckHeartbeat(S, order, envs) ==
    HeartbeatLoop(S, SelectSeq(order, LAMBDA id : TimedOut(S, id)), envs)

\* One check interval passes.  An age above the timeout is kept at
\* timeout + interval: CheckHeartbeat treats all such ages alike.
Min(a, b) == IF a < b THEN a ELSE b
Elapse(age) == Min(age + heartbeat_check_interval_ms_, heartbeat_timeout_ms_ + heartbeat_check_interval_ms_)
AdvanceClock(S) ==
    [S EXCEPT !.map = [id \in DOMAIN S.map |-> [S.map[id] EXCEPT !.heartbeat_age = Elapse(@)]]]

\* MonitorProcesses(): one record.  A stored QProcess is Running or
\* NotRunning (see QRunning), so the QProcess::Starting case never applies.
MonitorOne(S, process_id) ==
    LET info == S.map[process_id]
    IN IF info.process = NullProcess THEN S
       ELSE IF S.q[info.process] = QRunning
       THEN (IF info.status # kRunning THEN UpdateProcessStatus(S, process_id, kRunning) ELSE S)
       ELSE (IF info.status # kNotRunning /\ info.status # kStopping
             THEN UpdateProcessStatus(S, process_id, kNotRunning) ELSE S)

RECURSIVE MonitorProcesses(_, _)
MonitorProcesses(S, order) ==
    IF order = <<>> THEN S
    ELSE MonitorProcesses(IF Head(order) \in DOMAIN S.map THEN MonitorOne(S, Head(order)) ELSE S,
                          Tail(order))

\* CleanupStoppedProcesses() with CleanupProcessInfo(): the records erased
\* and their QProcess objects deleted.
Removable(S, process_id) ==
    /\ S.map[process_id].status = kNotRunning
    /\ S.map[process_id].process # NullProcess
    /\ S.q[S.map[process_id].process] = QNotRunning

CleanupStoppedProcesses(S) ==
    LET to_remove == {id \in DOMAIN S.map : Removable(S, id)}
        gone == {S.map[id].process : id \in to_remove}
    IN [S EXCEPT !.map = [id \in DOMAIN S.map \ to_remove |-> S.map[id]],
                 !.q = [h \in DOMAIN S.q |-> IF h \in gone THEN QDeleted ELSE S.q[h]]]

\* StopAllProcesses(timeout_ms), step 1 (under the lock): the records that
\* are Running and have a QProcess get auto_restart = false, terminate() and
\* status Stopping.
StopAllSelected(S) ==
    {id \in DOMAIN S.map : S.map[id].status = kRunning /\ S.map[id].process # NullProcess}

StopAllOne(S, id) ==
    IF id \in StopAllSelected(S)
    THEN UpdateProcessStatus([S EXCEPT !.map[id].auto_restart = FALSE], id, kStopping)
    ELSE S

RECURSIVE StopAllPhase1(_, _)
StopAllPhase1(S, order) ==
    IF order = <<>> THEN S ELSE StopAllPhase1(StopAllOne(S, Head(order)), Tail(order))

\* StopAllProcesses, step 3 (lines 366-376, under the lock): the ids of
\* process_list are looked up in the map again, and the QProcess the record
\* holds now gets kill() when it is not NotRunning.
StopAllKilled(map, q, process_list) ==
    {map[id].process : id \in {i \in process_list \cap DOMAIN map :
                                  /\ map[i].process # NullProcess
                                  /\ q[map[i].process] # QNotRunning}}

\* Orders in which a QHash over Ids can be walked.
Orders == {o \in [1..Cardinality(Ids) -> Ids] : \A i, j \in DOMAIN o : i # j => o[i] # o[j]}

\* AddProcess(process_id, .., auto_restart)
AddProcess(S, process_id, auto_restart) ==
    IF process_id \in DOMAIN S.map THEN Return(S, FALSE)
    ELSE LET info == [status |-> kNotRunning, heartbeat_age |-> 0, restart_count |-> 0,
                      auto_restart |-> auto_restart, max_restart_count |-> kAddDefaultMaxRestart,
                      process |-> NullProcess]
         IN Return([S EXCEPT !.map = (process_id :> info) @@ S.map], TRUE)

\* UpdateHeartbeat(sender_id)
UpdateHeartbeat(S, sender_id) ==
    IF sender_id \in DOMAIN S.map THEN [S EXCEPT !.map[sender_id].heartbeat_age = 0] ELSE S

\* SetMaxRestartCount(process_id, max_count)
SetMaxRestartCount(S, process_id, max_count) ==
    IF process_id \in DOMAIN S.map THEN [S EXCEPT !.map[process_id].max_restart_count = max_count] ELSE S

\* GetProcessStatus(process_id)
GetProcessStatus(map, process_id) ==
    IF process_id \notin DOMAIN map THEN kNotRunning ELSE map[process_id].status

\* ------------------------------------------------------------------- steps
EmptyMap == [id \in {} |-> 0]
Pool == 1..MaxProcs

StatusBefore(process_id) ==
    IF process_id \in DOMAIN process_info_map_ THEN process_info_map_[process_id].status ELSE "NoRecord"

Alive(process_id) ==
    /\ process_id \in DOMAIN process_info_map_
    /\ process_info_map_[process_id].process # NullProcess
    /\ qprocess[process_info_map_[process_id].process] = QRunning

Fired(sigs, process_id) == \E i \in DOMAIN sigs : sigs[i] = HeartbeatTimeoutSig(process_id)

\* A QProcess object that has finished and that neither a record nor a
\* StopAllProcesses call refers to can never be seen again: its handle is
\* free for the next object.
Collect(q, map, procs) ==
    [h \in DOMAIN q |->
        IF /\ q[h] \in {QNotRunning, QDeleted}
           /\ h \notin procs
           /\ \A id \in DOMAIN map : map[id].process # h
        THEN QFree ELSE q[h]]

\* Handles are pointer values: the code compares them for equality and
\* nothing else, so states that differ by a renaming of the handles are the
\* same state.  Renaming(q, map, procs) maps each handle to its name in the
\* representative, in which the handles are ordered by what refers to them
\* and by their state.
IdOrder == CHOOSE o \in Orders : TRUE
IdRank(id) == CHOOSE i \in DOMAIN IdOrder : IdOrder[i] = id
StateRank(st) == CASE st = QRunning -> 1 [] st = QNotRunning -> 2 [] st = QDeleted -> 3 [] OTHER -> 4
HandleKey(q, map, procs, h) ==
    100 * (IF \E id \in DOMAIN map : map[id].process = h
           THEN IdRank(CHOOSE id \in DOMAIN map : map[id].process = h)
           ELSE Cardinality(Ids) + 1)
    + 10 * (IF h \in procs THEN 1 ELSE 2)
    + StateRank(q[h])
Renaming(q, map, procs) ==
    LET key == [h \in DOMAIN q |-> HandleKey(q, map, procs, h)]
    IN [h \in DOMAIN q |->
           1 + Cardinality({g \in DOMAIN q : key[g] < key[h] \/ (key[g] = key[h] /\ g < h)})]
Rename(r, process) == IF process = NullProcess THEN NullProcess ELSE r[process]

\* The record is being watched: Running with its heartbeat overdue.
Overdue(map, id) ==
    /\ id \in DOMAIN map
    /\ map[id].status = kRunning
    /\ map[id].heartbeat_age > heartbeat_timeout_ms_

\* What every step writes: the supervisor's state after the call, the
\* signals it emitted and the record of the call.  No step is taken once the
\* main thread is blocked.
Commit(S, op, process_id, ret, sa) ==
    /\ ~hung
    /\ ~S.overflow
    /\ \E q \in {Collect(S.q, S.map, sa.procs)} : \E r \in {Renaming(q, S.map, sa.procs)} :
          /\ process_info_map_' =
                [id \in DOMAIN S.map |-> [S.map[id] EXCEPT !.process = Rename(r, @)]]
          /\ qprocess' = [h \in DOMAIN q |-> q[CHOOSE g \in DOMAIN q : r[g] = h]]
          /\ stop_all' = [sa EXCEPT !.procs = {r[h] : h \in sa.procs}]
    /\ hung' = S.hung
    /\ emitted' = S.emitted
    /\ last' = [op |-> op, id |-> process_id, pre |-> StatusBefore(process_id),
                ret |-> IF S.hung THEN "hung" ELSE ret,
                tried |-> S.tried, starts |-> S.starts, locked_wait |-> S.locked_wait]
    /\ UNCHANGED <<message_vars, channel_vars, store_vars, log_vars>>

\* No HeartbeatTimeout in this step and no time passes.
KeepTimeouts(S) ==
    last_timeout' = [id \in Ids |-> IF Overdue(S.map, id) THEN last_timeout[id] ELSE -1]

Bool(b) == IF b THEN "true" ELSE "false"

\* A call that returns nothing is a step only when it changes the map or a
\* QProcess or emits a signal.
Visible(S) == S.map # process_info_map_ \/ S.q # qprocess \/ S.emitted # <<>>

\* Automatic respawns, counted against the budget.
CountAutoRestarts(S) ==
    restart_budget' = [id \in Ids |-> IF id \in S.restarted /\ restart_budget[id] >= 0
                                       THEN restart_budget[id] - 1 ELSE restart_budget[id]]

\* The choices of the environment that matter to a call on process_id.
WaitEnvs(process_id, restarts) ==
    {e \in Env : /\ ~Alive(process_id) => e.dies = 0
                 /\ e.dies = 0 => e.exit = NormalExit
                 /\ ~restarts => ~e.started}
ExitEnvs == {e \in Env : e.dies = 0}

ProcessManagerInit ==
    /\ process_info_map_ = EmptyMap
    /\ qprocess = [h \in Pool |-> QFree]
    /\ hung = FALSE
    /\ stop_all = [pc |-> "idle", list |-> {}, procs |-> {}]
    /\ emitted = <<>>
    /\ last = [op |-> "Init", id |-> "", pre |-> "NoRecord", ret |-> "void", tried |-> {}, starts |-> 0,
               locked_wait |-> FALSE]
    /\ restart_budget = [id \in Ids |-> 0]
    /\ stop_requested = [id \in Ids |-> FALSE]
    /\ last_timeout = [id \in Ids |-> -1]

CallAddProcess ==
    \E id \in Ids, auto \in BOOLEAN :
      \E S \in {AddProcess(Enter, id, auto)} :
         /\ Commit(S, "AddProcess", id, Bool(S.ret), stop_all)
         /\ KeepTimeouts(S)
         /\ restart_budget' = IF S.ret THEN [restart_budget EXCEPT ![id] = kAddDefaultMaxRestart]
                               ELSE restart_budget
         /\ UNCHANGED <<stop_requested>>

CallStartProcess ==
    \E id \in Ids, auto \in BOOLEAN, started \in BOOLEAN :
      \E S \in {StartProcess(Enter, id, auto, started)} :
         /\ Commit(S, "StartProcess", id, Bool(S.ret), stop_all)
         /\ KeepTimeouts(S)
         /\ restart_budget' = IF S.ret THEN [restart_budget EXCEPT ![id] = kStartDefaultMaxRestart]
                               ELSE restart_budget
         /\ stop_requested' = [stop_requested EXCEPT ![id] = FALSE]

CallStopProcess ==
    \E id \in Ids, force_kill \in BOOLEAN :
      \E env \in WaitEnvs(id, FALSE) :
        \E S \in {StopProcess(Enter, id, force_kill, env)} :
           /\ Commit(S, "StopProcess", id, Bool(S.ret), stop_all)
           /\ KeepTimeouts(S)
           /\ stop_requested' = IF Alive(id) THEN [stop_requested EXCEPT ![id] = TRUE]
                                ELSE stop_requested
           /\ UNCHANGED <<restart_budget>>

CallRestartProcess ==
    \E id \in Ids :
      \E env \in WaitEnvs(id, TRUE) :
        \E S \in {RestartProcess(Enter, id, env)} :
           /\ Commit(S, "RestartProcess", id, Bool(S.ret), stop_all)
           /\ KeepTimeouts(S)
           /\ restart_budget' = IF ~S.hung /\ S.ret
                                 THEN [restart_budget EXCEPT ![id] = kStartDefaultMaxRestart]
                                 ELSE restart_budget
           /\ stop_requested' = [stop_requested EXCEPT ![id] = FALSE]
  
CallUpdateHeartbeat ==
    \E id \in Ids :
      \E S \in {UpdateHeartbeat(Enter, id)} :
         /\ Visible(S)
         /\ Commit(S, "UpdateHeartbeat", id, "void", stop_all)
         /\ KeepTimeouts(S)
         /\ UNCHANGED <<restart_budget, stop_requested>>

CallSetMaxRestartCount ==
    \E id \in Ids, max_count \in MaxCountArgs :
      \E S \in {SetMaxRestartCount(Enter, id, max_count)} :
         /\ id \in DOMAIN process_info_map_
         /\ Commit(S, "SetMaxRestartCount", id, "void", stop_all)
         /\ KeepTimeouts(S)
         /\ restart_budget' = [restart_budget EXCEPT ![id] = max_count]
         /\ UNCHANGED <<stop_requested>>

CallCleanupStoppedProcesses ==
    \E S \in {CleanupStoppedProcesses(Enter)} :
       /\ Visible(S)
       /\ Commit(S, "CleanupStoppedProcesses", "", "void", stop_all)
       /\ KeepTimeouts(S)
       /\ stop_requested' = [id \in Ids |-> id \in DOMAIN S.map /\ stop_requested[id]]
       /\ UNCHANGED <<restart_budget>>

\* The event loop delivers the exit of the OS process behind QProcess h.
SlotProcessExits ==
    \E h \in Pool, env \in ExitEnvs :
      /\ qprocess[h] = QRunning
      /\ \E S \in {ProcessDied(Enter, h, env)} :
            /\ Commit(S, "HandleProcessFinished", GetProcessIdByQProcess(Enter, h), "void",
                      stop_all)
            /\ KeepTimeouts(S)
            /\ CountAutoRestarts(S)
      /\ UNCHANGED <<stop_requested>>

\* The time since the last HeartbeatTimeout signal, one check interval later.
Aged(t) ==
    IF t < 0 \/ t + heartbeat_check_interval_ms_ >= heartbeat_timeout_ms_
    THEN -1 ELSE t + heartbeat_check_interval_ms_

\* heartbeat_timer_ fires: one check interval has passed since it last did.
SlotCheckHeartbeat ==
    \E order \in Orders, envs \in [Ids -> Env] :
      /\ \A id \in Ids : envs[id] \in WaitEnvs(id, TRUE)
      /\ \E S \in {CheckHeartbeat(AdvanceClock(Enter), order, envs)} :
            /\ Visible(S)
            /\ Commit(S, "CheckHeartbeat", "", "void", stop_all)
            /\ CountAutoRestarts(S)
            /\ last_timeout' = [id \in Ids |-> IF Fired(S.emitted, id) THEN 0
                                                ELSE IF Overdue(S.map, id) THEN Aged(last_timeout[id])
                                                ELSE -1]
      /\ UNCHANGED <<stop_requested>>

\* monitor_timer_ fires.
SlotMonitorProcesses ==
    \E order \in Orders :
      \E S \in {MonitorProcesses(Enter, order)} :
         /\ Visible(S)
         /\ Commit(S, "MonitorProcesses", "", "void", stop_all)
         /\ KeepTimeouts(S)
         /\ UNCHANGED <<restart_budget, stop_requested>>

\* StopAllProcesses, step 1; with nothing to stop it returns true at once.
CallStopAllProcesses ==
    \E order \in Orders :
      /\ stop_all.pc = "idle"
      /\ \E S \in {StopAllPhase1(Enter, order)}, process_list \in {StopAllSelected(Enter)} :
          \E proc_ptrs \in {{process_info_map_[id].process : id \in process_list}} :
            /\ Commit(S, "StopAllProcesses", "", IF process_list = {} THEN "true" ELSE "void",
                      IF process_list = {} THEN stop_all
                      ELSE [pc |-> "polling", list |-> process_list, procs |-> proc_ptrs])
            /\ KeepTimeouts(S)
      /\ UNCHANGED <<restart_budget, stop_requested>>

\* Step 2: a poll finds every snapshotted QProcess NotRunning and the call
\* returns true.  proc_ptrs holds raw pointers: reading the state of an
\* object deleted meanwhile may give either answer.
StopAllStopped ==
    /\ stop_all.pc = "polling"
    /\ \A h \in stop_all.procs : qprocess[h] \in {QNotRunning, QDeleted}
    /\ Commit(Enter, "StopAllProcesses", "", "true", [pc |-> "idle", list |-> {}, procs |-> {}])
    /\ KeepTimeouts(Enter)
    /\ UNCHANGED <<restart_budget, stop_requested>>

\* Step 3: timeout_ms elapsed with a snapshotted process still running; the
\* records still in the map whose QProcess runs get kill(), and the call
\* returns true.
StopAllTimeout ==
    /\ stop_all.pc = "polling"
    /\ \E h \in stop_all.procs : qprocess[h] \in {QRunning, QDeleted}
    /\ Commit(Enter, "StopAllProcesses", "", "true", [pc |-> "idle", list |-> {}, procs |-> {}])
    /\ KeepTimeouts(Enter)
    /\ UNCHANGED <<restart_budget, stop_requested>>

SupervisorNext ==
    \/ CallAddProcess
    \/ CallStartProcess
    \/ CallStopProcess
    \/ CallRestartProcess
    \/ CallUpdateHeartbeat
    \/ CallSetMaxRestartCount
    \/ CallCleanupStoppedProcesses
    \/ CallStopAllProcesses
    \/ StopAllStopped
    \/ StopAllTimeout
    \/ SlotProcessExits
    \/ SlotCheckHeartbeat
    \/ SlotMonitorProcesses

\* ============================================================ IpcMessage
\* ------------------------------------------------------------------ bounds
\* The field values of the messages that are serialised.  Timestamps are
\* millisecond counts small enough for the checker's integers.
Topics == {"", "subscribe_topic"}
MsgIds == {"", "6f1c2a9e-0b7d-4c58-9a3e-2d4b8f0e7a11"}
Timestamps == {0, 1700}
PeerIds == {"", "worker1"}

\* enum class MessageType, in declaration order: kHello = 0 ... kShutdown = 10.
MessageTypes == <<"kHello", "kHelloAck", "kHeartbeat", "kHeartbeatAck", "kConfigUpdate",
                  "kCommand", "kCommandResponse", "kStatusReport", "kLogMessage",
                  "kErrorReport", "kShutdown">>
MessageType == {MessageTypes[i] : i \in DOMAIN MessageTypes}

\* QJsonValue: a tagged value.  A QJsonObject is a function from its keys to
\* QJsonValues.
JsonUndefined == [t |-> "Undefined"]
JsonDouble(n) == [t |-> "Double", v |-> n]
JsonString(str) == [t |-> "String", v |-> str]
JsonObject(obj) == [t |-> "Object", v |-> obj]
EmptyObject == [k \in {} |-> JsonUndefined]

\* The bodies that are sent.
Bodies == {EmptyObject, [k \in {"topic"} |-> JsonString("topic1")]}

\* QJsonObject::operator[](key) const: the member, or Undefined when the
\* object has no such key.
JsonValue(json, key) == IF key \in DOMAIN json THEN json[key] ELSE JsonUndefined
\* QJsonValue::toInt / toString / toObject / toVariant().toLongLong(): the
\* value when it has the asked type, else the default 0 / "" / {}.
toInt(value) == IF value.t = "Double" THEN value.v ELSE 0
toString(value) == IF value.t = "String" THEN value.v ELSE ""
toObject(value) == IF value.t = "Object" THEN value.v ELSE EmptyObject
toLongLong(value) == IF value.t = "Double" THEN value.v ELSE 0

\* static_cast<int>(MessageType) and static_cast<MessageType>(int); an int
\* outside the enumerators stays the unnamed value it is.
TypeToInt(type) == (CHOOSE i \in DOMAIN MessageTypes : MessageTypes[i] = type) - 1
IntToType(n) == IF n + 1 \in DOMAIN MessageTypes THEN MessageTypes[n + 1] ELSE n

IpcMessage(type, topic, msg_id, timestamp, sender_id, receiver_id, body) ==
    [type |-> type, topic |-> topic, msg_id |-> msg_id, timestamp |-> timestamp,
     sender_id |-> sender_id, receiver_id |-> receiver_id, body |-> body]
\* IpcMessage{}: value-initialised.
DefaultIpcMessage == IpcMessage(IntToType(0), "", "", 0, "", "", EmptyObject)

\* IpcMessage::toJson
toJson(m) ==
    [k \in {"type", "topic", "msg_id", "timestamp", "sender_id", "receiver_id", "body"} |->
        CASE k = "type" -> JsonDouble(TypeToInt(m.type))
          [] k = "topic" -> JsonString(m.topic)
          [] k = "msg_id" -> JsonString(m.msg_id)
          [] k = "timestamp" -> JsonDouble(m.timestamp)
          [] k = "sender_id" -> JsonString(m.sender_id)
          [] k = "receiver_id" -> JsonString(m.receiver_id)
          [] k = "body" -> JsonObject(m.body)]

\* IpcMessage::fromJson reads the key "msg_id" as the source spells it.
fromJsonReading(json, msg_id_key) ==
    IpcMessage(IntToType(toInt(JsonValue(json, "type"))),
               toString(JsonValue(json, "topic")),
               toString(JsonValue(json, msg_id_key)),
               toLongLong(JsonValue(json, "timestamp")),
               toString(JsonValue(json, "sender_id")),
               toString(JsonValue(json, "receiver_id")),
               toObject(JsonValue(json, "body")))
fromJson(json) == fromJsonReading(json, "msg_ id")

\* QJsonDocument(json).toJson(Compact): the members as text, in key order
\* (QJsonObject keeps its keys sorted).
KeyOrder == <<"body", "msg_ id", "msg_id", "receiver_id", "sender_id", "timestamp", "topic", "type">>
IsKeyOf(json) == [i \in DOMAIN KeyOrder |-> KeyOrder[i] \in DOMAIN json]
RECURSIVE Members(_, _)
Members(json, i) ==
    IF i > Len(KeyOrder) THEN <<>>
    ELSE (IF IsKeyOf(json)[i] THEN <<[key |-> KeyOrder[i], value |-> json[KeyOrder[i]]]>> ELSE <<>>)
         \o Members(json, i + 1)
CompactJson(json) == [json_text |-> TRUE, members |-> Members(json, 1)]
\* Bytes that are no JSON document.
NotJson == [json_text |-> FALSE, members |-> <<>>]
\* QJsonDocument::fromJson(data).object()
DocumentObject(data) ==
    [k \in {data.members[i].key : i \in DOMAIN data.members} |->
        data.members[CHOOSE i \in DOMAIN data.members : data.members[i].key = k].value]

\* IpcMessage::toByteArray
toByteArray(m) == CompactJson(toJson(m))
\* IpcMessage::fromByteArray
fromByteArray(data) ==
    IF ~data.json_text THEN DefaultIpcMessage ELSE fromJson(DocumentObject(data))

NoWire == [form |-> "none"]
NoMessage == [absent |-> TRUE]
\* No message is being serialised.
MessageIdle == message = NoMessage /\ wire = NoWire /\ received = NoMessage
\* A caller holds some message to serialise.
MessageInit ==
    /\ message \in {IpcMessage(type, topic, msg_id, timestamp, sender_id, receiver_id, body) :
                      type \in MessageType, topic \in Topics, msg_id \in MsgIds,
                      timestamp \in Timestamps, sender_id \in PeerIds,
                      receiver_id \in PeerIds, body \in Bodies}
    /\ wire = NoWire
    /\ received = NoMessage

CallToJson ==
    /\ wire = NoWire
    /\ wire' = [form |-> "QJsonObject", json |-> toJson(message), intact |-> TRUE]
    /\ UNCHANGED <<message, received, supervisor_vars, channel_vars, store_vars, log_vars>>

CallFromJson ==
    /\ wire.form = "QJsonObject"
    /\ received = NoMessage
    /\ received' = fromJson(wire.json)
    /\ UNCHANGED <<message, wire, supervisor_vars, channel_vars, store_vars, log_vars>>

CallToByteArray ==
    /\ wire = NoWire
    /\ wire' = [form |-> "QByteArray", data |-> toByteArray(message), intact |-> TRUE]
    /\ UNCHANGED <<message, received, supervisor_vars, channel_vars, store_vars, log_vars>>

\* The bytes a receiver parses are the ones sent, or bytes that do not parse
\* (wire then holds what arrived).
CallFromByteArray ==
    /\ wire.form = "QByteArray"
    /\ received = NoMessage
    /\ \E data \in {wire.data, NotJson} :
          /\ received' = fromByteArray(data)
          /\ wire' = [wire EXCEPT !.data = data, !.intact = (data = wire.data)]
    /\ UNCHANGED <<message, supervisor_vars, channel_vars, store_vars, log_vars>>

MessageNext ==
    \/ CallToJson
    \/ CallFromJson
    \/ CallToByteArray
    \/ CallFromByteArray

\* ===================================================== message channel
\* ------------------------------------------------------------------ bounds
\* Connections the listener accepts in one run.
MaxConnections == 2
\* The UUIDs newConnection gives the connections it accepts, in order.
InternalIds == <<"conn1", "conn2", "conn3", "conn4">>
\* Sender ids peers declare: a name of their own or the internal id of the
\* first connection.
LogicalIds == {"worker1", InternalIds[1]}
\* Topics peers subscribe to and the coordinator publishes on.
TopicNames == {"topic1"}
\* Endpoint names a configuration gives ("" stands for a missing one).
ServerNames == {"", "master_ipc"}

\* enum class ConnectionState (its kError is spelled as ProcessStatus's).
kDisconnected == "Disconnected"
kConnecting == "Connecting"
kConnected == "Connected"
kInitialized == "Initialized"
kAuthenticated == "Authenticated"
ConnectionState == {kDisconnected, kConnecting, kConnected, kInitialized, kAuthenticated, kError}

\* QLocalSocket::LocalSocketState of a socket kept in clients_.
ConnectedState == "ConnectedState"
UnconnectedState == "UnconnectedState"

\* Signals of IIpcCommunication.
ConnectionStateChanged(state) == [sig |-> "connectionStateChanged", state |-> state]
ErrorOccurred == [sig |-> "errorOccurred"]
ClientConnected(client_id) == [sig |-> "clientConnected", client |-> client_id]
ClientDisconnected(client_id) == [sig |-> "clientDisconnected", client |-> client_id]
MessageReceived(client_id, m) == [sig |-> "messageReceived", client |-> client_id, message |-> m]
TopicSubscriptionChanged(topic, subscribed) ==
    [sig |-> "topicSubscriptionChanged", topic |-> topic, subscribed |-> subscribed]

\* Finite maps.
EmptyTable == [k \in {} |-> ""]
Put(table, key, value) ==
    [k \in DOMAIN table \cup {key} |-> IF k = key THEN value ELSE table[k]]
Erase(table, key) == [k \in DOMAIN table \ {key} |-> table[k]]
\* QList::contains / QList::removeOne
Contains(list, x) == \E i \in DOMAIN list : list[i] = x
RemoveOne(list, x) ==
    IF ~Contains(list, x) THEN list
    ELSE [i \in 1..(Len(list) - 1) |->
            IF i < (CHOOSE j \in DOMAIN list : list[j] = x /\ \A h \in 1..(j - 1) : list[h] # x)
            THEN list[i] ELSE list[i + 1]]

\* Bytes on a socket.  The compact JSON text of one message is one item
\* (QJsonDocument::Compact writes no newline inside it); every other byte is
\* an item of its own.
Byte(c) == [c |-> c, text |-> NotJson]
Newline == Byte("\n")
JsonText(data) == [c |-> "json", text |-> data]
\* The QByteArray readyRead hands to IpcMessage::fromByteArray.
FrameBytes(message_data) ==
    IF Len(message_data) = 1 /\ message_data[1].c = "json" THEN message_data[1].text ELSE NotJson

\* What a call writes to a socket: the bytes QDataStream puts in front of a
\* QByteArray (its length as a quint32), the QByteArray, and the newlines
\* appended.
kLengthPrefixBytes == 4
NoBlock == [prefix |-> 0, data |-> NotJson, newlines |-> 0]
\* sendMessage: block = message.toByteArray(); block.append('\n').
NewlineBlock(m) == [prefix |-> 0, data |-> toByteArray(m), newlines |-> 1]
\* broadcastMessage, publishToTopic: QDataStream out(&block, WriteOnly);
\* out << message.toByteArray().
DataStreamBlock(m) ==
    [prefix |-> kLengthPrefixBytes, data |-> toByteArray(m), newlines |-> 0]

\* The channel as a call finds it, with nothing emitted or written yet.
ChannelEnter ==
    [connection_state_ |-> connection_state_, server_name_ |-> server_name_,
     listening |-> listening, clients_ |-> clients_,
     topic_subscriptions_ |-> topic_subscriptions_,
     logical_to_internal_id_ |-> logical_to_internal_id_,
     internal_to_logical_id_ |-> internal_to_logical_id_,
     shutting_down_ |-> shutting_down_, accepted |-> accepted,
     receive_buffers_ |-> receive_buffers_, freed_buffers |-> freed_buffers,
     crashed |-> FALSE, emitted |-> <<>>, written |-> {}, ret |-> "void",
     block |-> NoBlock, arrived |-> <<>>, frames |-> <<>>]

ChannelEmit(S, signal) == [S EXCEPT !.emitted = Append(@, signal)]
ChannelReturn(S, ret) == [S EXCEPT !.ret = Bool(ret)]

\* LocalSocketIpcCommunication::SetConnectionState
SetConnectionState(S, state) ==
    IF S.connection_state_ # state
    THEN ChannelEmit([S EXCEPT !.connection_state_ = state], ConnectionStateChanged(state))
    ELSE S

\* LocalSocketIpcCommunication::SetLastError
SetLastError(S) == ChannelEmit(S, ErrorOccurred)

\* LocalSocketIpcCommunication::initialize; server_name is
\* config["local_socket"]["server_name"].toString().
InitializeNamed(S, server_name) ==
    IF server_name = ""
    THEN ChannelReturn(SetConnectionState(SetLastError(S), kError), FALSE)
    ELSE ChannelReturn(SetConnectionState(S, kInitialized), TRUE)
initialize(S, server_name) ==
    InitializeNamed([SetConnectionState(S, kConnecting) EXCEPT !.server_name_ = server_name],
                    server_name)

\* QLocalServer::listen: refused for an empty name and for a server that
\* already listens; otherwise the operating system decides (listen_ok).
Listen(S, listen_ok) == listen_ok /\ S.server_name_ # "" /\ ~S.listening

\* LocalSocketIpcCommunication::start
start(S, listen_ok) ==
    IF S.connection_state_ = kConnected THEN ChannelReturn(SetLastError(S), TRUE)
    ELSE IF ~Listen(S, listen_ok)
    THEN ChannelReturn(SetConnectionState(SetLastError(S), kError), FALSE)
    ELSE ChannelReturn(SetConnectionState([S EXCEPT !.listening = TRUE], kConnected), TRUE)

\* The entries of receive_buffers_ are never erased: the entry of a socket
\* that is destroyed stays under the address the socket had.
FreeBuffers(S, sockets) ==
    [S EXCEPT !.receive_buffers_ = [c \in DOMAIN @ \ sockets |-> @[c]],
              !.freed_buffers = @ \cup ({S.receive_buffers_[c] : c \in sockets \cap DOMAIN S.receive_buffers_}
                                        \ {<<>>})]

StopKeepsTopics(S) ==
    [FreeBuffers(S, DOMAIN S.clients_)
        EXCEPT !.clients_ = EmptyTable, !.logical_to_internal_id_ = EmptyTable,
               !.internal_to_logical_id_ = EmptyTable]
\* stop() clears the four tables under the lock.  clients_.clear() frees the
\* unique_ptrs and so destroys the sockets; one destroyed while connected
\* emits disconnected() from its destructor, and socketDisconnected returns
\* at once because shutting_down_ is set by then.
StopClearsTables(S) ==
    [FreeBuffers(S, DOMAIN S.clients_)
        EXCEPT !.clients_ = EmptyTable, !.logical_to_internal_id_ = EmptyTable,
               !.internal_to_logical_id_ = EmptyTable, !.topic_subscriptions_ = EmptyTable]

\* LocalSocketIpcCommunication::stop.  The sockets snapshotted before
\* clients_.clear() are destroyed by it, so the loop after the lock works on
\* dangling pointers whenever there was a client: the call either goes on as
\* if the objects were there (survives) or the process dies in it.
stop(S, survives) ==
    IF S.connection_state_ = kDisconnected THEN S
    ELSE IF DOMAIN S.clients_ # {} /\ ~survives
    THEN [StopClearsTables([S EXCEPT !.shutting_down_ = TRUE, !.listening = FALSE])
            EXCEPT !.crashed = TRUE]
    ELSE SetConnectionState(
            StopClearsTables([S EXCEPT !.shutting_down_ = TRUE, !.listening = FALSE]),
            kDisconnected)

\* LocalSocketIpcCommunication::newConnection, for one pending connection.
\* The new QLocalSocket is allocated at an address that has no entry in
\* receive_buffers_ (inherited = <<>>) or at the address of a destroyed
\* socket, whose entry it then finds as its own.
newConnection(S, inherited) ==
    ChannelEmit([S EXCEPT !.clients_ = Put(@, InternalIds[S.accepted + 1], ConnectedState),
                          !.receive_buffers_ = Put(@, InternalIds[S.accepted + 1], inherited),
                          !.freed_buffers = @ \ {inherited},
                          !.accepted = @ + 1],
                ClientConnected(InternalIds[S.accepted + 1]))

\* LocalSocketIpcCommunication::RemoveClient, the loop over the topics.
RemoveFromTopics(topics, client_id_to_remove) ==
    [t \in DOMAIN topics |-> RemoveOne(topics[t], client_id_to_remove)]
\* LocalSocketIpcCommunication::RemoveClient, the id maps.
RemoveIdMapping(S, client_id_to_remove) ==
    IF client_id_to_remove \in DOMAIN S.internal_to_logical_id_
    THEN [S EXCEPT !.internal_to_logical_id_ = Erase(@, client_id_to_remove),
                   !.logical_to_internal_id_ =
                        Erase(@, S.internal_to_logical_id_[client_id_to_remove])]
    ELSE S
\* LocalSocketIpcCommunication::RemoveClient
RemoveClient(S, client_id_to_remove) ==
    [RemoveIdMapping(FreeBuffers(S, {client_id_to_remove}), client_id_to_remove)
        EXCEPT !.clients_ = Erase(@, client_id_to_remove),
               !.topic_subscriptions_ = RemoveFromTopics(@, client_id_to_remove)]

\* LocalSocketIpcCommunication::socketDisconnected, for the socket of
\* client_id.  RemoveClient destroys the socket (clients_.erase frees the
\* unique_ptr) while the socket is still emitting disconnected(); the socket's
\* own code runs on after the slot in a destroyed object, so the process
\* either goes on (survives) or dies there.
socketDisconnected(S, client_id, survives) ==
    IF S.shutting_down_ THEN S
    ELSE [ChannelEmit(RemoveClient(S, client_id), ClientDisconnected(client_id))
            EXCEPT !.crashed = ~survives]

\* LocalSocketIpcCommunication::establishIdMapping
establishIdMapping(S, internal_id, m) ==
    IF m.sender_id # "" /\ m.sender_id \notin DOMAIN S.logical_to_internal_id_
    THEN [S EXCEPT !.logical_to_internal_id_ = Put(@, m.sender_id, internal_id),
                   !.internal_to_logical_id_ = Put(@, internal_id, m.sender_id)]
    ELSE S

\* topic_subscriptions_[topic]: QMap::operator[] inserts an empty list for a
\* topic that has none.
SubscribersOf(topics, topic) == IF topic \in DOMAIN topics THEN topics[topic] ELSE <<>>

\* LocalSocketIpcCommunication::handleSubscriptionMessage, "subscribe_topic".
Subscribe(S, topic, client_id) ==
    IF topic = "" \/ client_id = "" THEN S
    ELSE IF Contains(SubscribersOf(S.topic_subscriptions_, topic), client_id)
    THEN S
    ELSE ChannelEmit([S EXCEPT !.topic_subscriptions_ =
                         Put(@, topic, Append(SubscribersOf(@, topic), client_id))],
                     TopicSubscriptionChanged(topic, TRUE))
\* LocalSocketIpcCommunication::handleSubscriptionMessage, "unsubscribe_topic".
Unsubscribe(S, topic, client_id) ==
    IF topic = "" \/ client_id = "" THEN S
    ELSE ChannelEmit([S EXCEPT !.topic_subscriptions_ =
                         Put(@, topic, RemoveOne(SubscribersOf(@, topic), client_id))],
                     TopicSubscriptionChanged(topic, FALSE))
\* LocalSocketIpcCommunication::handleSubscriptionMessage
handleSubscriptionMessage(S, m) ==
    IF m.type = "kCommand" /\ m.topic = "subscribe_topic"
    THEN Subscribe(S, toString(JsonValue(m.body, "topic")), m.sender_id)
    ELSE IF m.type = "kCommand" /\ m.topic = "unsubscribe_topic"
    THEN Unsubscribe(S, toString(JsonValue(m.body, "topic")), m.sender_id)
    ELSE S

\* LocalSocketIpcCommunication::readyRead, the body of the loop for one frame.
DispatchFrame(S, client_id, m) ==
    ChannelEmit(IF m.type = "kCommand" /\ m.topic \in {"subscribe_topic", "unsubscribe_topic"}
                THEN handleSubscriptionMessage(establishIdMapping(S, client_id, m), m)
                ELSE establishIdMapping(S, client_id, m),
                MessageReceived(client_id, m))
\* QByteArray::indexOf('\n') + 1
NewlinePos(buffer) ==
    CHOOSE i \in DOMAIN buffer : buffer[i] = Newline /\ \A j \in 1..(i - 1) : buffer[j] # Newline
\* LocalSocketIpcCommunication::readyRead, the loop: while the buffer holds
\* a newline, the bytes before it are taken off and, unless there are none,
\* dispatched.
RECURSIVE ReadLoop(_, _)
ReadLoop(S, client_id) ==
    IF ~Contains(S.receive_buffers_[client_id], Newline) THEN S
    ELSE LET buffer == S.receive_buffers_[client_id]
             message_data == SubSeq(buffer, 1, NewlinePos(buffer) - 1)
             rest == SubSeq(buffer, NewlinePos(buffer) + 1, Len(buffer))
         IN ReadLoop(IF message_data = <<>>
                     THEN [S EXCEPT !.receive_buffers_[client_id] = rest]
                     ELSE DispatchFrame([S EXCEPT !.receive_buffers_[client_id] = rest,
                                                  !.frames = Append(@, message_data)],
                                        client_id, fromByteArray(FrameBytes(message_data))),
                     client_id)
\* LocalSocketIpcCommunication::readyRead, the socket of client_id having
\* received data.
readyRead(S, client_id, data) ==
    IF S.shutting_down_ THEN S
    ELSE ReadLoop([S EXCEPT !.receive_buffers_[client_id] = @ \o data], client_id)

\* The sockets of clients_ in QLocalSocket::ConnectedState.
ConnectedClients(S) == {c \in DOMAIN S.clients_ : S.clients_[c] = ConnectedState}

\* One SetLastError for each socket whose write was short or failed.
RECURSIVE WriteErrors(_, _)
WriteErrors(S, n) == IF n = 0 THEN S ELSE WriteErrors(SetLastError(S), n - 1)

\* The loop of broadcastMessage and of publishToTopic over the sockets it
\* found in ConnectedState; the writes to the sockets in fails are short.
WriteTo(S, sockets, fails, block) ==
    ChannelReturn([WriteErrors(S, Cardinality(sockets \cap fails))
                      EXCEPT !.written = sockets \ fails, !.block = block],
                  sockets \cap fails = {})

\* LocalSocketIpcCommunication::sendMessage(client_id, message)
sendMessageToClient(S, client_id, m, fails) ==
    IF client_id \notin DOMAIN S.clients_ THEN ChannelReturn(SetLastError(S), FALSE)
    ELSE IF S.clients_[client_id] # ConnectedState THEN ChannelReturn(SetLastError(S), FALSE)
    ELSE WriteTo(S, {client_id}, fails, NewlineBlock(m))

\* LocalSocketIpcCommunication::sendMessage(message): the receiver's logical
\* id is translated to the internal id first.
sendMessage(S, m, fails) ==
    IF m.receiver_id \notin DOMAIN S.logical_to_internal_id_
    THEN ChannelReturn(SetLastError(S), FALSE)
    ELSE sendMessageToClient(S, S.logical_to_internal_id_[m.receiver_id], m, fails)

\* LocalSocketIpcCommunication::broadcastMessage
broadcastMessage(S, m, fails) ==
    IF DOMAIN S.clients_ = {} THEN ChannelReturn(S, TRUE)
    ELSE WriteTo(S, ConnectedClients(S), fails, DataStreamBlock(m))

publishToTopicNoSubscriberFails(S, topic, m, fails) ==
    IF topic \notin DOMAIN S.topic_subscriptions_ \/ S.topic_subscriptions_[topic] = <<>>
    THEN ChannelReturn(S, FALSE)
    ELSE WriteTo(S, {c \in ConnectedClients(S) : Contains(S.topic_subscriptions_[topic], c)},
                 fails, DataStreamBlock(m))
\* LocalSocketIpcCommunication::publishToTopic
publishToTopic(S, topic, m, fails) ==
    IF topic \notin DOMAIN S.topic_subscriptions_ \/ S.topic_subscriptions_[topic] = <<>>
    THEN ChannelReturn(S, TRUE)
    ELSE WriteTo(S, {c \in ConnectedClients(S) : Contains(S.topic_subscriptions_[topic], c)},
                 fails, DataStreamBlock(m))

\* ------------------------------------------------------------------- steps
\* Messages peers send: commands that subscribe or unsubscribe and others.
PeerMessages ==
    {IpcMessage(type, topic, "", 0, sender_id, "", [k \in {"topic"} |-> JsonString(name)]) :
        type \in {"kCommand", "kHeartbeat"}, topic \in {"subscribe_topic", "unsubscribe_topic"},
        sender_id \in LogicalIds \cup {""}, name \in TopicNames}

\* The peers of a behaviour.  WholeFramePeers send one message per read,
\* framed as the channel expects it; FramingPeers send arbitrary bytes,
\* split across reads in every way, and their streams are recorded.
WholeFrames == {<<JsonText(toByteArray(m)), Newline>> : m \in PeerMessages}
WholeFramePeers == [chunks |-> WholeFrames, history |-> FALSE]
StreamBytes == {Byte("a"), Newline}
MaxStream == 3
MaxChunk == 2
Chunks == UNION {[1..n -> StreamBytes] : n \in 1..MaxChunk}
FramingPeers == [chunks |-> Chunks, history |-> TRUE]
\* Messages the coordinator sends.
OutboundMessages ==
    {IpcMessage("kCommand", "", "", 0, "", receiver_id, EmptyObject) : receiver_id \in LogicalIds}
Connections == {InternalIds[i] : i \in 1..MaxConnections}

\* The logical ids bound to a connection, in either map (for stop(): all the
\* bound ones).
BoundTo(client_id) ==
    {l \in DOMAIN logical_to_internal_id_ : logical_to_internal_id_[l] = client_id}
    \cup (IF client_id \in DOMAIN internal_to_logical_id_
          THEN {internal_to_logical_id_[client_id]} ELSE {})

\* LocalSocketIpcCommunication::LocalSocketIpcCommunication
ChannelConstructed(peers) ==
    /\ connection_state_ = kDisconnected
    /\ server_name_ = ""
    /\ listening = FALSE
    /\ clients_ = EmptyTable
    /\ topic_subscriptions_ = EmptyTable
    /\ logical_to_internal_id_ = EmptyTable
    /\ internal_to_logical_id_ = EmptyTable
    /\ shutting_down_ = FALSE
    /\ accepted = 0
    /\ channel_crashed = FALSE
    /\ channel_emitted = <<>>
    /\ channel_last = [op |-> "construct", arg |-> "", ret |-> "void",
                       before |-> kDisconnected, written |-> {}, bound |-> {},
                       block |-> NoBlock]
    /\ stopped_clients = {}
    /\ receive_buffers_ = [c \in {} |-> <<>>]
    /\ freed_buffers = {}
    /\ channel_peers = peers
    /\ peer_sent = [c \in Connections |-> <<>>]
    /\ dispatched = [c \in Connections |-> <<>>]
ChannelInit == ChannelConstructed(WholeFramePeers)

\* What every step of the channel writes.  No step is taken once the process
\* has died.
ChannelCommit(S, op, arg) ==
    /\ ~channel_crashed
    /\ connection_state_' = S.connection_state_
    /\ server_name_' = S.server_name_
    /\ listening' = S.listening
    /\ clients_' = S.clients_
    /\ topic_subscriptions_' = S.topic_subscriptions_
    /\ logical_to_internal_id_' = S.logical_to_internal_id_
    /\ internal_to_logical_id_' = S.internal_to_logical_id_
    /\ shutting_down_' = S.shutting_down_
    /\ accepted' = S.accepted
    /\ channel_crashed' = S.crashed
    /\ channel_emitted' = S.emitted
    /\ channel_last' = [op |-> op, arg |-> arg, ret |-> S.ret, before |-> connection_state_,
                        written |-> S.written,
                        bound |-> IF op = "stop" THEN DOMAIN logical_to_internal_id_
                                  ELSE BoundTo(arg),
                        block |-> S.block]
    /\ stopped_clients' = IF op = "stop" /\ ~S.crashed
                          THEN stopped_clients \cup DOMAIN clients_ ELSE stopped_clients
    /\ receive_buffers_' = S.receive_buffers_
    /\ freed_buffers' = S.freed_buffers
    /\ channel_peers' = channel_peers
    /\ peer_sent' = IF channel_peers.history /\ op = "readyRead"
                    THEN [peer_sent EXCEPT ![arg] = @ \o S.arrived] ELSE peer_sent
    /\ dispatched' = IF channel_peers.history /\ op = "readyRead"
                     THEN [dispatched EXCEPT ![arg] = @ \o S.frames] ELSE dispatched

CallInitialize ==
    \E server_name \in ServerNames :
       \E S \in {initialize(ChannelEnter, server_name)} :
          /\ ChannelCommit(S, "initialize", server_name)
          /\ UNCHANGED <<supervisor_vars, message_vars, store_vars, log_vars>>

CallStart ==
    \E listen_ok \in BOOLEAN :
       \E S \in {start(ChannelEnter, listen_ok)} :
          /\ ChannelCommit(S, "start", "")
          /\ UNCHANGED <<supervisor_vars, message_vars, store_vars, log_vars>>

CallStop ==
    \E survives \in BOOLEAN :
       \E S \in {stop(ChannelEnter, survives)} :
          /\ ChannelCommit(S, "stop", "")
          /\ UNCHANGED <<supervisor_vars, message_vars, store_vars, log_vars>>

\* A peer connects to the listening endpoint.
SlotNewConnection ==
    \E inherited \in {<<>>} \cup freed_buffers :
       \E S \in {newConnection(ChannelEnter, inherited)} :
          /\ listening
          /\ accepted < MaxConnections
          /\ ChannelCommit(S, "newConnection", InternalIds[accepted + 1])
          /\ UNCHANGED <<supervisor_vars, message_vars, store_vars, log_vars>>

\* A peer closes its end: the socket leaves ConnectedState and emits
\* disconnected().
SlotSocketDisconnected ==
    \E client_id \in ConnectedClients(ChannelEnter), survives \in BOOLEAN :
       \E S \in {socketDisconnected(
                    [ChannelEnter EXCEPT !.clients_[client_id] = UnconnectedState],
                    client_id, survives)} :
          /\ ChannelCommit(S, "socketDisconnected", client_id)
          /\ UNCHANGED <<supervisor_vars, message_vars, store_vars, log_vars>>

\* Bytes a peer sent arrive on its socket: one read delivers data.
SlotReadyRead ==
    \E client_id \in ConnectedClients(ChannelEnter), data \in channel_peers.chunks :
       \E S \in {readyRead([ChannelEnter EXCEPT !.arrived = data], client_id, data)} :
          /\ channel_peers.history => Len(peer_sent[client_id]) + Len(data) <= MaxStream
          /\ ChannelCommit(S, "readyRead", client_id)
          /\ UNCHANGED <<supervisor_vars, message_vars, store_vars, log_vars>>

CallSendMessage ==
    \E m \in OutboundMessages, fails \in SUBSET ConnectedClients(ChannelEnter) :
       \E S \in {sendMessage(ChannelEnter, m, fails)} :
          /\ ChannelCommit(S, "sendMessage", m.receiver_id)
          /\ UNCHANGED <<supervisor_vars, message_vars, store_vars, log_vars>>

CallSendMessageToClient ==
    \E client_id \in Connections, m \in OutboundMessages,
       fails \in SUBSET ConnectedClients(ChannelEnter) :
       \E S \in {sendMessageToClient(ChannelEnter, client_id, m, fails)} :
          /\ ChannelCommit(S, "sendMessageToClient", client_id)
          /\ UNCHANGED <<supervisor_vars, message_vars, store_vars, log_vars>>

CallBroadcastMessage ==
    \E m \in OutboundMessages, fails \in SUBSET ConnectedClients(ChannelEnter) :
       \E S \in {broadcastMessage(ChannelEnter, m, fails)} :
          /\ ChannelCommit(S, "broadcastMessage", "")
          /\ UNCHANGED <<supervisor_vars, message_vars, store_vars, log_vars>>

CallPublishToTopic ==
    \E topic \in TopicNames, m \in OutboundMessages,
       fails \in SUBSET ConnectedClients(ChannelEnter) :
       \E S \in {publishToTopic(ChannelEnter, topic, m, fails)} :
          /\ ChannelCommit(S, "publishToTopic", topic)
          /\ UNCHANGED <<supervisor_vars, message_vars, store_vars, log_vars>>

ChannelNext ==
    \/ CallInitialize
    \/ CallStart
    \/ CallStop
    \/ SlotNewConnection
    \/ SlotSocketDisconnected
    \/ SlotReadyRead
    \/ CallSendMessage
    \/ CallSendMessageToClient
    \/ CallBroadcastMessage
    \/ CallPublishToTopic

\* The inbound side alone: connections come and go and bytes arrive.
FramingNext ==
    \/ CallInitialize
    \/ CallStart
    \/ CallStop
    \/ SlotNewConnection
    \/ SlotSocketDisconnected
    \/ SlotReadyRead

\* ==================================================== observable store
\* ------------------------------------------------------------------ bounds
\* Keys and subscription patterns, as sequences of characters.
StoreKeys == {<<>>, <<"a">>, <<"a", "b">>}
StorePatterns == {<<"*">>, <<"a">>, <<"a", "*">>}
\* The QObjects that subscribe.
Subscribers == {"observer1"}

\* QVariant: a tagged value, a number being held as its decimal text;
\* QVariant() is the invalid one.
InvalidVariant == [type |-> "Invalid", v |-> ""]
IntVariant(n) == [type |-> "int", v |-> n]
DoubleVariant(n) == [type |-> "double", v |-> n]
StringVariant(str) == [type |-> "QString", v |-> str]
LongLongVariant(n) == [type |-> "qlonglong", v |-> n]
NullptrVariant == [type |-> "std::nullptr_t", v |-> ""]
\* A QStringList holds its strings in list.
StringListVariant(list) == [type |-> "QStringList", v |-> "", list |-> list]
\* The values callers store.
StoreValues == {InvalidVariant, IntVariant("1"), DoubleVariant("1")}

\* The callers of the store in the behaviours of StoreSpec: what they pass
\* for keys, patterns, subscribers (and which of these have a callback that
\* throws), values and the notify flag; history says whether the call before
\* the last is kept in store_prev.
StoreCallers ==
    [keys |-> StoreKeys, patterns |-> StorePatterns, subscribers |-> Subscribers,
     throwing |-> {}, values |-> StoreValues, notify |-> BOOLEAN, history |-> TRUE]

\* The decimal texts above that denote whole numbers.
WholeNumbers == {"0", "1"}
\* The callers of SnapshotSpec: they store values of several types under
\* two keys and subscribe to nothing.
SnapshotCallers ==
    [keys |-> {<<"a">>, <<"a", "b">>}, patterns |-> {}, subscribers |-> {}, throwing |-> {},
     values |-> {IntVariant("1"), DoubleVariant("0.5"), StringVariant("x"),
                 StringListVariant(<<>>), StringListVariant(<<"x">>)},
     notify |-> {FALSE}, history |-> FALSE]
\* The callers of PatternSpec: one subscriber under patterns with and without
\* "*", and keys with and without a line feed.
PatternCallers ==
    [keys |-> {<<"a">>, <<"a", "\n">>, <<"b">>},
     patterns |-> {<<"*">>, <<"a">>, <<"a", "*">>, <<"*", "a">>},
     subscribers |-> Subscribers, throwing |-> {},
     values |-> {IntVariant("0"), IntVariant("1")}, notify |-> {TRUE}, history |-> FALSE]
\* The callers of LockSpec: one subscriber to every key, and two keys that
\* are set, removed, cleared, saved and restored.
LockCallers ==
    [keys |-> {<<"a">>, <<"a", "b">>}, patterns |-> {<<"*">>},
     subscribers |-> Subscribers, throwing |-> {},
     values |-> {IntVariant("1"), StringVariant("x")}, notify |-> BOOLEAN, history |-> FALSE]
\* The callers of EventSpec: two subscribers, the callback of the second of
\* which throws, and one key that is set and removed.
EventCallers ==
    [keys |-> {<<"a">>}, patterns |-> {<<"*">>, <<"a">>},
     subscribers |-> {"observer1", "observer2"}, throwing |-> {"observer2"},
     values |-> {IntVariant("0"), IntVariant("1")}, notify |-> {TRUE}, history |-> FALSE]
\* QDateTime::currentDateTime().toString(Qt::ISODate) at the snapshot.
SnapshotTimes == {"2026-01-01T00:00:00"}
\* The most calls the event queue of the store's thread holds.
MaxQueued == 2
\* The characters of the keys, in code point order.
Alphabet == <<"\n", "*", "a", "b">>

\* QMetaType ids between Bool and Double that the values above use:
\* QVariant compares two of these as numbers.
NumericTypes == {"int", "double", "qlonglong"}
\* QVariant::operator==: values of one type compare by value and two invalid
\* ones are equal; values of different types are unequal, except that two
\* numeric ones compare as numbers.
VariantEquals(a, b) ==
    IF a.type = b.type THEN a = b
    ELSE {a.type, b.type} \subseteq NumericTypes /\ a.v = b.v

\* QHash::value(key, defaultValue)
HashValue(data, key, defaultValue) == IF key \in DOMAIN data THEN data[key] ELSE defaultValue

\* DataStore::matchesPattern, the regular expression "^" + escaped pattern
\* with each "*" turned into ".*" + "$": "." is any character but a newline,
\* and "$" is the end of the key or the place before a newline that ends it.
RECURSIVE RegexMatch(_, _)
RegexMatch(pattern, key) ==
    IF pattern = <<>> THEN key = <<>> \/ key = <<"\n">>
    ELSE IF Head(pattern) = "*"
    THEN \/ RegexMatch(Tail(pattern), key)
         \/ key # <<>> /\ Head(key) # "\n" /\ RegexMatch(pattern, Tail(key))
    ELSE key # <<>> /\ Head(key) = Head(pattern) /\ RegexMatch(Tail(pattern), Tail(key))
\* DataStore::matchesPattern
matchesPattern(pattern, key) ==
    IF pattern = <<"*">> THEN TRUE
    ELSE IF \A i \in DOMAIN pattern : pattern[i] # "*" THEN pattern = key
    ELSE RegexMatch(pattern, key)

\* The mutations of data_ whose valueChanged has not been delivered, per key
\* and oldest first; early holds the keys for which the call delivered a
\* notification while an older mutation of the key was still undelivered.
NoLog == [pending |-> EmptyTable, early |-> {}]
PendingOf(log, key) == IF key \in DOMAIN log.pending THEN log.pending[key] ELSE <<>>
\* A mutation of the key is committed to data_.
Committed(log, key, oldValue, newValue) ==
    [log EXCEPT !.pending =
        Put(@, key, Append(PendingOf(log, key), [oldValue |-> oldValue, newValue |-> newValue]))]
\* The valueChanged of a mutation of the key is delivered.
Delivered(log, key, oldValue, newValue) ==
    IF Head(PendingOf(log, key)) = [oldValue |-> oldValue, newValue |-> newValue]
    THEN IF Len(PendingOf(log, key)) = 1
         THEN [log EXCEPT !.pending = Erase(@, key)]
         ELSE [log EXCEPT !.pending = Put(@, key, Tail(PendingOf(log, key)))]
    ELSE [log EXCEPT !.pending =
                        Put(@, key, RemoveOne(PendingOf(log, key),
                                              [oldValue |-> oldValue, newValue |-> newValue])),
                     !.early = @ \cup {key}]

\* The store as a call finds it, with no signal emitted and no callback
\* invoked yet.
StoreEnter ==
    [data_ |-> data_, subscribers_ |-> subscribers_, signals |-> <<>>, called |-> <<>>,
     ret |-> InvalidVariant, queue |-> store_queue, snapshot |-> EmptyTable,
     log |-> [store_log EXCEPT !.early = {}], throwing |-> store_callers.throwing,
     escaped |-> FALSE, locked |-> FALSE, held |-> FALSE, relocked |-> FALSE]

\* QMutexLocker locker(&data_mutex_): the calling thread takes the mutex.
\* data_mutex_ is a plain QMutex, so a thread that already holds it waits
\* for itself.
Lock(S) == IF S.locked THEN [S EXCEPT !.relocked = TRUE] ELSE [S EXCEPT !.locked = TRUE]
\* The QMutexLocker goes out of scope.
Unlock(S) == [S EXCEPT !.locked = FALSE]

ValueChanged(key, oldValue, newValue) ==
    [sig |-> "valueChanged", key |-> key, oldValue |-> oldValue, newValue |-> newValue]
\* emit valueChanged(key, oldValue, newValue)
EmitValueChanged(S, key, oldValue, newValue) ==
    [S EXCEPT !.signals = Append(@, ValueChanged(key, oldValue, newValue)),
              !.log = Delivered(@, key, oldValue, newValue),
              !.held = @ \/ S.locked]

\* The subscriptions under one pattern, as <<pattern, subscriber>>, if the
\* pattern matches the key.
MatchingSubscriptions(subscribers, pattern, key) ==
    IF matchesPattern(pattern, key)
    THEN {<<pattern, subscribers[pattern][i]>> : i \in DOMAIN subscribers[pattern]}
    ELSE {}
AllMatchingSubscriptions(subscribers, key) ==
    UNION {MatchingSubscriptions(subscribers, pattern, key) : pattern \in DOMAIN subscribers}

\* The keys of a QHash in the order its iterator visits them.
RECURSIVE HashOrder(_)
HashOrder(keys) ==
    IF keys = {} THEN <<>>
    ELSE <<CHOOSE k \in keys : TRUE>> \o HashOrder(keys \ {CHOOSE k \in keys : TRUE})
\* DataStore::notifySubscribers, its first loop: callbackList gets, pattern
\* by pattern, the entries of every list whose pattern matches the key.
RECURSIVE CallbackList(_, _, _)
CallbackList(subscribers, patterns, key) ==
    IF patterns = <<>> THEN <<>>
    ELSE IF matchesPattern(Head(patterns), key)
    THEN [i \in DOMAIN subscribers[Head(patterns)] |->
             <<Head(patterns), subscribers[Head(patterns)][i]>>]
         \o CallbackList(subscribers, Tail(patterns), key)
    ELSE CallbackList(subscribers, Tail(patterns), key)
\* info.callback(key, oldValue, newValue)
Callback(info, throwing) == IF info[2] \in throwing THEN "throws" ELSE "returns"
\* DataStore::notifySubscribers, its second loop: every callback of the list
\* is invoked inside try.
RECURSIVE InvokeCallbacks(_, _, _)
ExceptionEscapes(callbackList, throwing, invoked) ==
    [invoked |-> Append(invoked, Head(callbackList)), escaped |-> TRUE]
\* catch (const std::exception&) and catch (...): what the callback throws is
\* logged and the loop goes on.
ExceptionCaught(callbackList, throwing, invoked) ==
    InvokeCallbacks(Tail(callbackList), throwing, Append(invoked, Head(callbackList)))
InvokeCallbacks(callbackList, throwing, invoked) ==
    IF callbackList = <<>> THEN [invoked |-> invoked, escaped |-> FALSE]
    ELSE IF Callback(Head(callbackList), throwing) = "throws"
    THEN ExceptionCaught(callbackList, throwing, invoked)
    ELSE InvokeCallbacks(Tail(callbackList), throwing, Append(invoked, Head(callbackList)))
\* How often each subscription of a list of invocations was invoked.
Invocations(invoked) ==
    [sub \in {invoked[i] : i \in DOMAIN invoked} |->
        Cardinality({i \in DOMAIN invoked : invoked[i] = sub})]
\* DataStore::notifySubscribers, its second loop run on the list: each
\* subscription invoked gets the number of its invocations, and held tells
\* whether a callback ran while the thread had data_mutex_.
RunCallbacks(S, R) ==
    [S EXCEPT !.called = Invocations(R.invoked), !.escaped = R.escaped,
              !.held = @ \/ (S.locked /\ R.invoked # <<>>)]
\* DataStore::notifySubscribers: the list is copied inside the locked block
\* and the callbacks run after it.
notifySubscribers(S, key) ==
    RunCallbacks(Unlock(Lock(S)),
                 InvokeCallbacks(CallbackList(S.subscribers_, HashOrder(DOMAIN S.subscribers_),
                                              key),
                                 S.throwing, <<>>))

BoolVariant(b) == [type |-> "bool", v |-> Bool(b)]

LockedWriteHeld(S, key, oldValue, value) ==
    [Lock(S) EXCEPT !.data_ = Put(@, key, value),
                    !.log = Committed(@, key, oldValue, value)]
\* DataStore::setValue, its locked block once the value is known to differ:
\* the map is written and the block is left.
LockedWrite(S, key, oldValue, value) ==
    Unlock([Lock(S) EXCEPT !.data_ = Put(@, key, value),
                           !.log = Committed(@, key, oldValue, value)])
\* DataStore::setValue once the value is known to differ: the map is
\* written, then valueChanged is emitted, then the subscribers are notified.
WriteValue(S, key, oldValue, value, notify) ==
    IF notify
    THEN notifySubscribers(
             EmitValueChanged(LockedWrite(S, key, oldValue, value), key, oldValue, value),
             key)
    ELSE EmitValueChanged(LockedWrite(S, key, oldValue, value), key, oldValue, value)

setValueAlways(S, key, value, notify) ==
    IF key = <<>> THEN S
    ELSE WriteValue(S, key, HashValue(S.data_, key, InvalidVariant), value, notify)
\* DataStore::setValue
setValue(S, key, value, notify) ==
    IF key = <<>> THEN S
    ELSE IF VariantEquals(HashValue(S.data_, key, InvalidVariant), value) THEN S
    ELSE WriteValue(S, key, HashValue(S.data_, key, InvalidVariant), value, notify)

\* DataStore::getValue
getValue(S, key, defaultValue) == [S EXCEPT !.ret = HashValue(S.data_, key, defaultValue)]

\* DataStore::subscribe (the callback is never null here)
subscribe(S, key, subscriber) ==
    IF key = <<>> THEN [S EXCEPT !.ret = BoolVariant(FALSE)]
    ELSE IF key \in DOMAIN S.subscribers_ /\ Contains(S.subscribers_[key], subscriber)
    THEN [S EXCEPT !.ret = BoolVariant(FALSE)]
    ELSE [S EXCEPT !.subscribers_ = Put(@, key, Append(SubscribersOf(@, key), subscriber)),
                   !.ret = BoolVariant(TRUE)]

\* DataStore::unsubscribe
unsubscribe(S, key, subscriber) ==
    IF key \notin DOMAIN S.subscribers_ \/ ~Contains(S.subscribers_[key], subscriber)
    THEN [S EXCEPT !.ret = BoolVariant(FALSE)]
    ELSE IF RemoveOne(S.subscribers_[key], subscriber) = <<>>
    THEN [S EXCEPT !.subscribers_ = Erase(@, key), !.ret = BoolVariant(TRUE)]
    ELSE [S EXCEPT !.subscribers_ = Put(@, key, RemoveOne(@[key], subscriber)),
                   !.ret = BoolVariant(TRUE)]

\* QMetaObject::invokeMethod(this, [key, oldValue] { ... }, Qt::QueuedConnection):
\* the lambda that will announce the removal of the key is put at the end of
\* the event queue.
Queued(key, oldValue) == [key |-> key, oldValue |-> oldValue]
\* DataStore::removeValue
removeValue(S, key) ==
    IF key \notin DOMAIN S.data_ THEN Unlock([Lock(S) EXCEPT !.ret = BoolVariant(FALSE)])
    ELSE Unlock([Lock(S) EXCEPT !.data_ = Erase(@, key),
                                !.log = Committed(@, key, S.data_[key], InvalidVariant),
                                !.queue = Append(@, Queued(key, S.data_[key])),
                                !.ret = BoolVariant(TRUE)])

\* DataStore::clear, its loop over oldData: one lambda is queued for every
\* entry, in the order the QHash iterator gives them.
RECURSIVE QueueRemovals(_, _, _)
QueueRemovals(S, oldData, keys) ==
    IF keys = <<>> THEN S
    ELSE QueueRemovals([S EXCEPT !.queue = Append(@, Queued(Head(keys), oldData[Head(keys)]))],
                       oldData, Tail(keys))
\* DataStore::clear, its locked block: every entry leaves data_.
RECURSIVE CommitRemovals(_, _, _)
CommitRemovals(log, oldData, keys) ==
    IF keys = <<>> THEN log
    ELSE CommitRemovals(Committed(log, Head(keys), oldData[Head(keys)], InvalidVariant),
                        oldData, Tail(keys))
\* DataStore::clear
clear(S) ==
    QueueRemovals(Unlock([Lock(S) EXCEPT
                             !.data_ = EmptyTable,
                             !.log = CommitRemovals(@, S.data_, HashOrder(DOMAIN S.data_))]),
                  S.data_, HashOrder(DOMAIN S.data_))

\* The lambda queued by removeValue and clear, run by the event loop.
QueuedRemoval(S, call) ==
    notifySubscribers(EmitValueChanged(S, call.key, call.oldValue, InvalidVariant), call.key)

\* QJsonValue for the snapshot; a number is held as an integer when it is
\* whole and as a double otherwise.
JsonNull == [t |-> "Null"]
JsonNumber(n) == [t |-> "Double", v |-> n, isInteger |-> n \in WholeNumbers]
JsonArray(items) == [t |-> "Array", v |-> items]
\* QJsonValue::fromVariant
fromVariant(value) ==
    CASE value.type \in NumericTypes -> JsonNumber(value.v)
      [] value.type = "QString" -> JsonString(value.v)
      [] value.type = "QStringList" ->
            JsonArray([i \in DOMAIN value.list |-> JsonString(value.list[i])])
      [] OTHER -> JsonNull
\* QJsonValue::toVariant
toVariant(json) ==
    CASE json.t = "Null" -> NullptrVariant
      [] json.t = "Double" ->
            IF json.isInteger THEN LongLongVariant(json.v) ELSE DoubleVariant(json.v)
      [] json.t = "String" -> StringVariant(json.v)
      [] OTHER -> InvalidVariant

\* DataStore::createSnapshot, the member written for one value.
SnapshotValue(value) ==
    IF value.type = "QStringList"
    THEN JsonArray([i \in DOMAIN value.list |-> JsonString(value.list[i])])
    ELSE fromVariant(value)
\* DataStore::createSnapshot
createSnapshot(S, now) ==
    [S EXCEPT !.snapshot =
        [k \in {"timestamp", "version", "data"} |->
            CASE k = "timestamp" -> JsonString(now)
              [] k = "version" -> JsonString("1.0")
              [] k = "data" -> JsonObject([key \in DOMAIN S.data_ |->
                                              SnapshotValue(S.data_[key])])]]

\* The position of a character in the alphabet.
CodePoint(ch) == CHOOSE i \in DOMAIN Alphabet : Alphabet[i] = ch
\* QString::operator<
RECURSIVE StringLess(_, _)
StringLess(a, b) ==
    IF b = <<>> THEN FALSE
    ELSE IF a = <<>> THEN TRUE
    ELSE IF Head(a) = Head(b) THEN StringLess(Tail(a), Tail(b))
    ELSE CodePoint(Head(a)) < CodePoint(Head(b))
\* The keys of a QJsonObject in the order its iterator visits them: sorted.
RECURSIVE SortedKeys(_)
SortedKeys(keys) ==
    IF keys = {} THEN <<>>
    ELSE <<CHOOSE k \in keys : \A other \in keys \ {k} : StringLess(k, other)>>
         \o SortedKeys(keys \ {CHOOSE k \in keys : \A other \in keys \ {k} : StringLess(k, other)})

\* DataStore::restoreFromSnapshot, the value read for one member.
RestoredValue(jsonValue) ==
    IF jsonValue.t = "Array"
    THEN StringListVariant([i \in DOMAIN jsonValue.v |-> toString(jsonValue.v[i])])
    ELSE toVariant(jsonValue)
\* DataStore::restoreFromSnapshot, its loop over dataObj.
RECURSIVE RestoreEntries(_, _, _)
RestoreEntries(S, dataObj, keys) ==
    IF keys = <<>> THEN S
    ELSE RestoreEntries(setValue(S, Head(keys), RestoredValue(dataObj[Head(keys)]), FALSE),
                        dataObj, Tail(keys))
\* DataStore::restoreFromSnapshot
restoreFromSnapshot(S, snapshot) ==
    IF "data" \notin DOMAIN snapshot \/ snapshot["data"].t # "Object"
    THEN [S EXCEPT !.ret = BoolVariant(FALSE)]
    ELSE [RestoreEntries(clear(S), snapshot["data"].v, SortedKeys(DOMAIN snapshot["data"].v))
             EXCEPT !.ret = BoolVariant(TRUE)]

\* ------------------------------------------------------------------- steps
NoCall == [op |-> "construct", key |-> <<>>, value |-> InvalidVariant, notify |-> FALSE,
           ret |-> InvalidVariant, signals |-> <<>>, called |-> <<>>, changed |-> FALSE,
           escaped |-> FALSE, held |-> FALSE, relocked |-> FALSE]
\* No snapshot is held.
NoSnapshot == [json |-> EmptyTable, of |-> EmptyTable]

\* DataStore::DataStore, with the callers the store will have.
StoreConstructed(callers) ==
    /\ data_ = EmptyTable
    /\ subscribers_ = EmptyTable
    /\ store_last = NoCall
    /\ store_prev = NoCall
    /\ store_callers = callers
    /\ store_queue = <<>>
    /\ snapshot_ = NoSnapshot
    /\ store_log = NoLog
StoreInit == StoreConstructed(StoreCallers)

\* What every call on the store writes.  The caller of createSnapshot holds
\* the snapshot until it calls something other than restoreFromSnapshot.
StoreCommit(S, op, key, value, notify) ==
    /\ data_' = S.data_
    /\ subscribers_' = S.subscribers_
    /\ store_last' = [op |-> op, key |-> key, value |-> value, notify |-> notify,
                      ret |-> S.ret, signals |-> S.signals, called |-> S.called,
                      changed |-> S.data_ # data_, escaped |-> S.escaped,
                      held |-> S.held, relocked |-> S.relocked]
    /\ store_prev' = IF store_callers.history /\ store_last.op = "setValue"
                     THEN [store_last EXCEPT !.ret = InvalidVariant, !.signals = <<>>]
                     ELSE NoCall
    /\ store_callers' = store_callers
    /\ store_queue' = S.queue
    /\ snapshot_' = IF op = "createSnapshot" THEN [json |-> S.snapshot, of |-> data_]
                    ELSE IF op \in {"restoreFromSnapshot", "event"} THEN snapshot_
                    ELSE NoSnapshot
    /\ store_log' = S.log

CallSetValue ==
    \E key \in store_callers.keys, value \in store_callers.values,
       notify \in store_callers.notify :
       \E S \in {setValue(StoreEnter, key, value, notify)} :
          /\ StoreCommit(S, "setValue", key, value, notify)
          /\ UNCHANGED <<supervisor_vars, message_vars, channel_vars, log_vars>>

CallGetValue ==
    \E key \in store_callers.keys, defaultValue \in {InvalidVariant, StringVariant("none")} :
       \E S \in {getValue(StoreEnter, key, defaultValue)} :
          /\ StoreCommit(S, "getValue", key, defaultValue, FALSE)
          /\ UNCHANGED <<supervisor_vars, message_vars, channel_vars, log_vars>>

CallSubscribe ==
    \E key \in store_callers.patterns \cup {<<>>}, subscriber \in store_callers.subscribers :
       \E S \in {subscribe(StoreEnter, key, subscriber)} :
          /\ StoreCommit(S, "subscribe", key, StringVariant(subscriber), FALSE)
          /\ UNCHANGED <<supervisor_vars, message_vars, channel_vars, log_vars>>

CallUnsubscribe ==
    \E key \in store_callers.patterns, subscriber \in store_callers.subscribers :
       \E S \in {unsubscribe(StoreEnter, key, subscriber)} :
          /\ StoreCommit(S, "unsubscribe", key, StringVariant(subscriber), FALSE)
          /\ UNCHANGED <<supervisor_vars, message_vars, channel_vars, log_vars>>

CallRemoveValue ==
    /\ Len(store_queue) < MaxQueued
    /\ \E key \in store_callers.keys :
          \E S \in {removeValue(StoreEnter, key)} :
             /\ StoreCommit(S, "removeValue", key, InvalidVariant, TRUE)
             /\ UNCHANGED <<supervisor_vars, message_vars, channel_vars, log_vars>>

CallClear ==
    /\ Len(store_queue) + Cardinality(DOMAIN data_) <= MaxQueued
    /\ \E S \in {clear(StoreEnter)} :
          /\ StoreCommit(S, "clear", <<>>, InvalidVariant, TRUE)
          /\ UNCHANGED <<supervisor_vars, message_vars, channel_vars, log_vars>>

\* The event loop of the store's thread runs the oldest queued call.
RunQueued ==
    /\ store_queue # <<>>
    /\ \E S \in {QueuedRemoval([StoreEnter EXCEPT !.queue = Tail(@)], Head(store_queue))} :
          /\ StoreCommit(S, "event", Head(store_queue).key, InvalidVariant, TRUE)
          /\ UNCHANGED <<supervisor_vars, message_vars, channel_vars, log_vars>>

CallCreateSnapshot ==
    \E now \in SnapshotTimes :
       \E S \in {createSnapshot(StoreEnter, now)} :
          /\ StoreCommit(S, "createSnapshot", <<>>, InvalidVariant, FALSE)
          /\ UNCHANGED <<supervisor_vars, message_vars, channel_vars, log_vars>>

\* restoreFromSnapshot with the snapshot held, or with an empty object when
\* none is.
CallRestoreFromSnapshot ==
    /\ Len(store_queue) + Cardinality(DOMAIN data_) <= MaxQueued
    /\ \E S \in {restoreFromSnapshot(StoreEnter, snapshot_.json)} :
          /\ StoreCommit(S, "restoreFromSnapshot", <<>>, InvalidVariant, FALSE)
          /\ UNCHANGED <<supervisor_vars, message_vars, channel_vars, log_vars>>

StoreNext ==
    \/ CallSetValue
    \/ CallGetValue
    \/ CallSubscribe
    \/ CallUnsubscribe

SnapshotNext ==
    \/ CallSetValue
    \/ CallCreateSnapshot
    \/ CallRestoreFromSnapshot
    \/ RunQueued

EventNext ==
    \/ CallSetValue
    \/ CallRemoveValue
    \/ CallClear
    \/ RunQueued
    \/ CallSubscribe
    \/ CallUnsubscribe

LockNext ==
    \/ CallSetValue
    \/ CallRemoveValue
    \/ CallClear
    \/ RunQueued
    \/ CallSubscribe
    \/ CallCreateSnapshot
    \/ CallRestoreFromSnapshot

\* ======================================================= log aggregator
\* ------------------------------------------------------------------ bounds
\* The process ids backends are registered under, in the order of
\* std::map<QString, ...>.
LogIdOrder == <<"procA", "procB">>
LogProcessIds == {LogIdOrder[i] : i \in DOMAIN LogIdOrder}
\* The timestamps of log entries, in seconds; QDateTime() is InvalidTime and
\* compares less than every valid time.
LogTimes == {1, 2}
InvalidTime == 0
\* The levels of the entries written.
LogLevels == {"kInfo", "kError"}
\* The most backends created in a behaviour and the most entries one holds.
MaxStorages == 3
MaxLogEntries == 2
\* The bytes one entry takes in a backend.
LineBytes == 64
\* enum class LogStorageType: the types asked for, and the one for which
\* a creator is registered with LogStorageFactory (FileLogStorage.cpp).
LogStorageTypes == {"kFileStorage", "kSQLiteStorage"}
s_creators == {"kFileStorage"}

\* struct LogEntry: the fields the backends keep.
LogEntry(timestamp, level, source_process) ==
    [timestamp |-> timestamp, level |-> level, source_process |-> source_process]
LogEntries ==
    {LogEntry(t, level, id) : t \in LogTimes, level \in LogLevels, id \in LogProcessIds \cup {""}}
NoEntry == LogEntry(InvalidTime, "", "")
\* struct LogQueryCondition: the level filter, empty for every level.
LogQueryCondition(levels) == [levels |-> levels]
LogConditions == {LogQueryCondition({}), LogQueryCondition({"kError"})}
\* struct LogStatistics
LogStatistics(total_count, total_size_bytes, earliest_time, latest_time) ==
    [total_count |-> total_count, total_size_bytes |-> total_size_bytes,
     earliest_time |-> earliest_time, latest_time |-> latest_time]

\* ----------------------------------------------------------------- signals
LogSignal(sig, id, ok, total, healthy) ==
    [sig |-> sig, id |-> id, ok |-> ok, total |-> total, healthy |-> healthy]
LogEmit(L, sig) == [L EXCEPT !.signals = Append(@, sig)]

\* ---------------------------------------------------------------- backends
\* A backend as its constructor leaves it (FileLogStorage::FileLogStorage).
NewStorage ==
    [m_initialized_ |-> FALSE, m_running_ |-> FALSE, connected |-> FALSE, destroyed |-> FALSE,
     entries |-> <<>>]

\* The registered ids in the order the loops over m_storage_instances visit
\* them.
RegisteredIds(instances) == SelectSeq(LogIdOrder, LAMBDA id : id \in DOMAIN instances)
\* The loop of onStorageLogWritten and onStorageStateChanged: the id whose
\* backend is the sender, or "".
ProcessIdOf(L, h) ==
    IF \E id \in DOMAIN L.instances : L.instances[id] = h
    THEN CHOOSE id \in DOMAIN L.instances : L.instances[id] = h
    ELSE ""
\* FileLogStorage::isHealthy
isHealthy(storage) == storage.m_running_
\* LogAggregator::checkAllStorageHealth, the number of healthy backends.
HealthyCount(L) ==
    Cardinality({id \in DOMAIN L.instances : isHealthy(L.storages[L.instances[id]])})

\* LogAggregator::onStorageLogWritten
onStorageLogWritten(L, h, success) ==
    IF ProcessIdOf(L, h) = "" THEN L
    ELSE LogEmit(L, LogSignal("logWrittenToProcess", ProcessIdOf(L, h), success, 0, 0))
\* LogAggregator::onStorageStateChanged
onStorageStateChanged(L, h, is_healthy) ==
    IF ProcessIdOf(L, h) = "" THEN L
    ELSE LogEmit(LogEmit(L, LogSignal("storageHealthChanged", ProcessIdOf(L, h), is_healthy,
                                      0, 0)),
                 LogSignal("aggregatorStatusChanged", "", FALSE,
                           Cardinality(DOMAIN L.instances), HealthyCount(L)))
\* emit storageStateChanged / emit logWritten of a backend: the aggregator's
\* slot runs if the backend's signals are connected to it.
EmitStorageStateChanged(L, h, is_healthy) ==
    IF L.storages[h].connected THEN onStorageStateChanged(L, h, is_healthy) ELSE L
EmitLogWritten(L, h, success) ==
    IF L.storages[h].connected THEN onStorageLogWritten(L, h, success) ELSE L

\* FileLogStorage::initialize; ok is whether the log directory exists or
\* can be made.
StorageInitialize(L, h, ok) ==
    IF L.storages[h].m_initialized_ THEN [L EXCEPT !.ret = TRUE]
    ELSE IF ~ok THEN [L EXCEPT !.ret = FALSE]
    ELSE [L EXCEPT !.storages[h].m_initialized_ = TRUE, !.ret = TRUE]
\* FileLogStorage::start (the log file can be opened)
StorageStart(L, h) ==
    IF ~L.storages[h].m_initialized_
    THEN [EmitStorageStateChanged(L, h, FALSE) EXCEPT !.ret = FALSE]
    ELSE [EmitStorageStateChanged([L EXCEPT !.storages[h].m_running_ = TRUE], h, TRUE)
             EXCEPT !.ret = TRUE]
\* FileLogStorage::stop
StorageStop(L, h) ==
    IF ~L.storages[h].m_running_ THEN L
    ELSE EmitStorageStateChanged([L EXCEPT !.storages[h].m_running_ = FALSE], h, FALSE)
\* FileLogStorage::~FileLogStorage, run when the unique_ptr that owns the
\* backend goes; what the backend held is no longer looked at.
StorageDestroy(L, h) ==
    [StorageStop(L, h) EXCEPT !.storages[h].destroyed = TRUE, !.storages[h].connected = FALSE,
                              !.storages[h].entries = <<>>]
\* FileLogStorage::writeLog
StorageWriteLog(L, h, entry) ==
    IF ~L.storages[h].m_running_
    THEN [L EXCEPT !.delivered = @ \cup {h}, !.ret = FALSE]
    ELSE [EmitLogWritten([L EXCEPT !.storages[h].entries = Append(@, entry),
                                   !.delivered = @ \cup {h}],
                         h, TRUE)
             EXCEPT !.ret = TRUE]

\* The filter of FileLogStorage::queryLogs and FileLogStorage::getStatistics.
Matches(entry, condition) == condition.levels = {} \/ entry.level \in condition.levels
\* std::sort by timestamp, as one of the orders it can give: entries with
\* equal timestamps keep no particular order.
SortedByTime(logs) == \A i, j \in DOMAIN logs : i < j => logs[i].timestamp <= logs[j].timestamp
Arrangements(logs) ==
    IF logs = <<>> THEN {<<>>}
    ELSE {[i \in DOMAIN logs |-> logs[p[i]]] : p \in Permutations(DOMAIN logs)}
\* FileLogStorage::queryLogs, before its sort.
StorageQueryLogs(storage, condition) ==
    SelectSeq(storage.entries, LAMBDA entry : Matches(entry, condition))
\* FileLogStorage::getStatistics
StorageGetStatistics(storage, condition) ==
    LogStatistics(
        Len(StorageQueryLogs(storage, condition)),
        LineBytes * Len(storage.entries),
        IF StorageQueryLogs(storage, condition) = <<>> THEN InvalidTime
        ELSE CHOOSE t \in LogTimes :
                /\ \E i \in DOMAIN storage.entries :
                      Matches(storage.entries[i], condition) /\ storage.entries[i].timestamp = t
                /\ \A i \in DOMAIN storage.entries :
                      Matches(storage.entries[i], condition) => t <= storage.entries[i].timestamp,
        IF StorageQueryLogs(storage, condition) = <<>> THEN InvalidTime
        ELSE CHOOSE t \in LogTimes :
                /\ \E i \in DOMAIN storage.entries :
                      Matches(storage.entries[i], condition) /\ storage.entries[i].timestamp = t
                /\ \A i \in DOMAIN storage.entries :
                      Matches(storage.entries[i], condition) => t >= storage.entries[i].timestamp)

\* -------------------------------------------------------------- aggregator
\* The aggregator as a call finds it.
LogEnter ==
    [instances |-> m_storage_instances, storages |-> storages, signals |-> <<>>, ret |-> FALSE,
     count |-> 0, all_logs |-> <<>>, stats |-> LogStatistics(0, 0, InvalidTime, InvalidTime),
     delivered |-> {}]

\* LogStorageFactory::getStorageTypeString
getStorageTypeString(type) ==
    CASE type = "kFileStorage" -> "file"
      [] type = "kSQLiteStorage" -> "sqlite"
      [] OTHER -> "file"
\* std::map::emplace: nothing is inserted when the key is there already.
Emplace(map, key, value) == IF key \in DOMAIN map THEN map ELSE Put(map, key, value)

\* LogAggregator::connectStorageSignals / disconnectStorageSignals
connectStorageSignals(L, h) == [L EXCEPT !.storages[h].connected = TRUE]
disconnectStorageSignals(L, h) == [L EXCEPT !.storages[h].connected = FALSE]

\* LogAggregator::unregisterStorage: signals disconnected, backend stopped,
\* then erased from the map, which destroys it.
unregisterStorage(L, process_id) ==
    IF process_id \notin DOMAIN L.instances THEN [L EXCEPT !.ret = FALSE]
    ELSE [LogEmit([StorageDestroy(StorageStop(disconnectStorageSignals(
                                                  L, L.instances[process_id]),
                                              L.instances[process_id]),
                                  L.instances[process_id])
                      EXCEPT !.instances = Erase(@, process_id)],
                  LogSignal("storageUnregistered", process_id, TRUE, 0, 0))
             EXCEPT !.ret = TRUE]

KeepPrevious(L, process_id) == L
\* LogAggregator::registerStorage, lines 22-25: a backend registered under
\* the id already is unregistered first.
UnregisterPrevious(L, process_id) ==
    IF process_id \in DOMAIN L.instances THEN unregisterStorage(L, process_id) ELSE L

\* LogAggregator::registerStorage from the creation of the backend on; h is
\* the backend LogStorageFactory::createLogStorage makes.
RegisterCreated(L, process_id, storage_type, h, init_ok) ==
    IF ~StorageInitialize(L, h, init_ok).ret
    THEN [LogEmit(StorageDestroy(L, h),
                  LogSignal("storageRegistered", process_id, FALSE, 0, 0))
             EXCEPT !.ret = FALSE]
    ELSE IF process_id \in DOMAIN L.instances
    THEN \* emplace inserts nothing and the new backend is destroyed with
         \* the unique_ptr that was to be moved into the map
         [LogEmit(LogEmit(StorageDestroy(StorageInitialize(L, h, init_ok), h),
                          LogSignal("storageRegistered", process_id, TRUE, 0, 0)),
                  LogSignal("aggregatorStatusChanged", "", FALSE,
                            Cardinality(DOMAIN L.instances), Cardinality(DOMAIN L.instances)))
             EXCEPT !.ret = TRUE]
    ELSE [LogEmit(LogEmit([connectStorageSignals(StorageInitialize(L, h, init_ok), h)
                              EXCEPT !.instances = Emplace(@, process_id, h)],
                          LogSignal("storageRegistered", process_id, TRUE, 0, 0)),
                  LogSignal("aggregatorStatusChanged", "", FALSE,
                            Cardinality(DOMAIN L.instances) + 1,
                            Cardinality(DOMAIN L.instances) + 1))
             EXCEPT !.ret = TRUE]

\* LogAggregator::registerStorage(process_id, storage_type, config)
registerStorage(L, process_id, storage_type, init_ok) ==
    IF process_id = "" THEN [L EXCEPT !.ret = FALSE]
    ELSE IF storage_type \notin s_creators
    THEN [LogEmit(UnregisterPrevious(L, process_id),
                  LogSignal("storageRegistered", process_id, FALSE, 0, 0))
             EXCEPT !.ret = FALSE]
    ELSE RegisterCreated([UnregisterPrevious(L, process_id)
                             EXCEPT !.storages = Append(@, NewStorage)],
                         process_id, storage_type, Len(L.storages) + 1, init_ok)

\* LogAggregator::startAllStorages, one turn of its loop.
StartCounted(L, started) == [started EXCEPT !.count = IF started.ret THEN L.count + 1 ELSE L.count]
\* LogAggregator::startAllStorages
RECURSIVE StartStorages(_, _)
StartStorages(L, ids) ==
    IF ids = <<>> THEN L
    ELSE StartStorages(StartCounted(L, StorageStart(L, L.instances[Head(ids)])), Tail(ids))
startAllStorages(L) == [StartStorages(L, RegisteredIds(L.instances)) EXCEPT !.ret = FALSE]

writeLogToAnyProcess(L, process_id, entry) ==
    IF process_id \in DOMAIN L.instances
    THEN StorageWriteLog(L, L.instances[process_id], entry)
    ELSE IF DOMAIN L.instances # {}
    THEN StorageWriteLog(L, L.instances[Head(RegisteredIds(L.instances))], entry)
    ELSE [L EXCEPT !.ret = FALSE]
\* LogAggregator::writeLogToProcess
writeLogToProcess(L, process_id, entry) ==
    IF process_id \in DOMAIN L.instances
    THEN StorageWriteLog(L, L.instances[process_id], entry)
    ELSE [L EXCEPT !.ret = FALSE]
\* LogAggregator::writeLog
writeLog(L, entry) ==
    IF entry.source_process = "" THEN [L EXCEPT !.ret = FALSE]
    ELSE writeLogToProcess(L, entry.source_process, entry)

\* LogAggregator::queryAllLogs, its loop: the results of the backends are
\* appended in the order of the map.
RECURSIVE CollectLogs(_, _, _)
CollectLogs(L, ids, condition) ==
    IF ids = <<>> THEN <<>>
    ELSE StorageQueryLogs(L.storages[L.instances[Head(ids)]], condition)
         \o CollectLogs(L, Tail(ids), condition)
UnsortedOutcomes(logs) == Arrangements(logs)
\* LogAggregator::queryAllLogs, its std::sort by timestamp: the orders the
\* sort can leave the list in.
SortOutcomes(logs) == {sorted \in Arrangements(logs) : SortedByTime(sorted)}
\* LogAggregator::queryAllLogs, with the order its sort gave.
queryAllLogs(L, condition, sorted) == [L EXCEPT !.all_logs = sorted]

\* QDateTime::operator<: an invalid time is less than every valid one.
TimeLess(a, b) == a < b
\* QDateTime::isValid
TimeIsValid(t) == t # InvalidTime
\* LogAggregator::getAggregatedStatistics, one turn of its loop.
Aggregate(aggregated, stats, first) ==
    LogStatistics(
        aggregated.total_count + stats.total_count,
        aggregated.total_size_bytes + stats.total_size_bytes,
        IF first \/ (TimeIsValid(stats.earliest_time)
                        /\ TimeLess(stats.earliest_time, aggregated.earliest_time))
        THEN stats.earliest_time ELSE aggregated.earliest_time,
        IF first \/ (TimeIsValid(stats.latest_time)
                        /\ TimeLess(aggregated.latest_time, stats.latest_time))
        THEN stats.latest_time ELSE aggregated.latest_time)
RECURSIVE AggregateStatistics(_, _, _, _, _)
AggregateStatistics(L, ids, condition, aggregated, first) ==
    IF ids = <<>> THEN aggregated
    ELSE AggregateStatistics(
             L, Tail(ids), condition,
             Aggregate(aggregated,
                       StorageGetStatistics(L.storages[L.instances[Head(ids)]], condition),
                       first),
             FALSE)
\* LogAggregator::getAggregatedStatistics
getAggregatedStatistics(L, condition) ==
    [L EXCEPT !.stats = AggregateStatistics(L, RegisteredIds(L.instances), condition,
                                            LogStatistics(0, 0, InvalidTime, InvalidTime),
                                            TRUE)]

\* ------------------------------------------------------------------- steps
\* LogAggregator::LogAggregator
LogAggregatorInit ==
    /\ m_storage_instances = EmptyTable
    /\ storages = <<>>
    /\ log_last = [op |-> "construct", id |-> "", entry |-> NoEntry,
                   condition |-> LogQueryCondition({}), ret |-> FALSE, count |-> 0,
                   all_logs |-> <<>>,
                   stats |-> LogStatistics(0, 0, InvalidTime, InvalidTime), signals |-> <<>>,
                   delivered |-> {}, before |-> EmptyTable]

\* What every call on the aggregator writes; before is the map the call
\* found.
LogCommit(L, op, id, entry, condition) ==
    /\ m_storage_instances' = L.instances
    /\ storages' = L.storages
    /\ log_last' = [op |-> op, id |-> id, entry |-> entry, condition |-> condition,
                    ret |-> L.ret, count |-> L.count, all_logs |-> L.all_logs,
                    stats |-> L.stats, signals |-> L.signals, delivered |-> L.delivered,
                    before |-> m_storage_instances]

CallRegisterStorage ==
    /\ Len(storages) < MaxStorages
    /\ \E process_id \in LogProcessIds \cup {""}, storage_type \in LogStorageTypes,
          init_ok \in BOOLEAN :
          \E L \in {registerStorage(LogEnter, process_id, storage_type, init_ok)} :
             /\ LogCommit(L, "registerStorage", process_id, NoEntry, LogQueryCondition({}))
             /\ UNCHANGED <<supervisor_vars, message_vars, channel_vars, store_vars>>

CallUnregisterStorage ==
    \E process_id \in LogProcessIds :
       \E L \in {unregisterStorage(LogEnter, process_id)} :
          /\ LogCommit(L, "unregisterStorage", process_id, NoEntry, LogQueryCondition({}))
          /\ UNCHANGED <<supervisor_vars, message_vars, channel_vars, store_vars>>

CallStartAllStorages ==
    \E L \in {startAllStorages(LogEnter)} :
       /\ LogCommit(L, "startAllStorages", "", NoEntry, LogQueryCondition({}))
       /\ UNCHANGED <<supervisor_vars, message_vars, channel_vars, store_vars>>

CallWriteLog ==
    \E entry \in LogEntries :
       /\ \A h \in DOMAIN storages : Len(storages[h].entries) < MaxLogEntries
       /\ \E L \in {writeLog(LogEnter, entry)} :
             /\ LogCommit(L, "writeLog", entry.source_process, entry, LogQueryCondition({}))
             /\ UNCHANGED <<supervisor_vars, message_vars, channel_vars, store_vars>>

CallQueryAllLogs ==
    \E condition \in LogConditions :
       \E sorted \in SortOutcomes(CollectLogs(LogEnter, RegisteredIds(m_storage_instances),
                                              condition)) :
          \E L \in {queryAllLogs(LogEnter, condition, sorted)} :
             /\ LogCommit(L, "queryAllLogs", "", NoEntry, condition)
             /\ UNCHANGED <<supervisor_vars, message_vars, channel_vars, store_vars>>

CallGetAggregatedStatistics ==
    \E condition \in LogConditions :
       \E L \in {getAggregatedStatistics(LogEnter, condition)} :
          /\ LogCommit(L, "getAggregatedStatistics", "", NoEntry, condition)
          /\ UNCHANGED <<supervisor_vars, message_vars, channel_vars, store_vars>>

LogNext ==
    \/ CallRegisterStorage
    \/ CallUnregisterStorage
    \/ CallStartAllStorages
    \/ CallWriteLog
    \/ CallQueryAllLogs
    \/ CallGetAggregatedStatistics

\* ======================================================== specifications
Init == ProcessManagerInit /\ MessageIdle /\ ChannelInit /\ StoreInit /\ LogAggregatorInit
SupervisorSpec == Init /\ [][SupervisorNext]_vars
\* The supervisor with its scheduling: the two timers keep firing, the event
\* loop delivers the exit of a process that has exited, and the polling loop
\* of StopAllProcesses keeps running until it returns.
SupervisorFairness ==
    /\ WF_vars(SlotMonitorProcesses)
    /\ WF_vars(SlotCheckHeartbeat)
    /\ WF_vars(SlotProcessExits)
    /\ WF_vars(StopAllStopped)
    /\ WF_vars(StopAllTimeout)
SupervisorLiveSpec == Init /\ [][SupervisorNext]_vars /\ SupervisorFairness

MessageSpecInit == ProcessManagerInit /\ MessageInit /\ ChannelInit /\ StoreInit /\ LogAggregatorInit
MessageSpec == MessageSpecInit /\ [][MessageNext]_vars

ChannelSpec == Init /\ [][ChannelNext]_vars
FramingSpecInit ==
    /\ ProcessManagerInit /\ MessageIdle /\ StoreInit /\ LogAggregatorInit
    /\ ChannelConstructed(FramingPeers)
FramingSpec == FramingSpecInit /\ [][FramingNext]_vars

StoreSpec == Init /\ [][StoreNext]_vars

SnapshotSpecInit ==
    /\ ProcessManagerInit /\ MessageIdle /\ ChannelInit /\ LogAggregatorInit
    /\ StoreConstructed(SnapshotCallers)
SnapshotSpec == SnapshotSpecInit /\ [][SnapshotNext]_vars

PatternSpecInit ==
    /\ ProcessManagerInit /\ MessageIdle /\ ChannelInit /\ LogAggregatorInit
    /\ StoreConstructed(PatternCallers)
PatternSpec == PatternSpecInit /\ [][StoreNext]_vars

EventSpecInit ==
    /\ ProcessManagerInit /\ MessageIdle /\ ChannelInit /\ LogAggregatorInit
    /\ StoreConstructed(EventCallers)
EventSpec == EventSpecInit /\ [][EventNext]_vars

LockSpecInit ==
    /\ ProcessManagerInit /\ MessageIdle /\ ChannelInit /\ LogAggregatorInit
    /\ StoreConstructed(LockCallers)
LockSpec == LockSpecInit /\ [][LockNext]_vars

LogSpec == Init /\ [][LogNext]_vars

\* ------------------------------------------------------------------ claims
Registered == DOMAIN process_info_map_

\* The last step emitted the signal sig for the id.
EmittedFor(sigs, sig, id) == \E i \in DOMAIN sigs : sigs[i].sig = sig /\ sigs[i].id = id

\* The ProcessStatusChanged events of the last step that carry the new status.
ChangedTo(sigs, id, new) ==
    \E i \in DOMAIN sigs :
        sigs[i].sig = "ProcessStatusChanged" /\ sigs[i].id = id /\ sigs[i].new = new

\* C1: bounded auto-restart.  Once the operator has fixed the max restart
\* count of a process at N (the default of the start, or SetMaxRestartCount),
\* the supervisor respawns it automatically at most N times until the
\* operator starts or restarts it again: the automatic respawns never exceed
\* the budget.
C1_RespawnsWithinMax == \A id \in Ids : restart_budget[id] >= 0

\* C2: the lifecycle scenario.  A successful startProcess on a registered,
\* NotRunning id shows the status change NotRunning -> Starting, and the
\* abnormal exit of a process shows no change to Error or to NotRunning.
C2_LifecycleEvents ==
    /\ (last.op = "StartProcess" /\ last.pre = kNotRunning /\ last.ret = "true")
          => emitted # <<>> /\ emitted[1] = ProcessStatusChanged(last.id, kNotRunning, kStarting)
    /\ (last.op = "HandleProcessFinished" /\ last.id \in Ids
            /\ EmittedFor(emitted, "ProcessCrashed", last.id))
          => ~ChangedTo(emitted, last.id, kError) /\ ~ChangedTo(emitted, last.id, kNotRunning)

\* C3: a heartbeat sweep fires HeartbeatTimeout for an id only when it has not
\* fired it within the timeout window before, and it then attempts a restart
\* exactly if autoRestart is set and restart_count < max_restart_count.
C3_TimeoutOncePerWindow ==
    [][\A id \in Ids :
         (last'.op = "CheckHeartbeat" /\ Fired(emitted', id))
            => /\ last_timeout[id] = -1
               /\ id \in last'.tried <=> /\ process_info_map_[id].auto_restart
                                         /\ RestartAllowed(process_info_map_[id])]_vars

\* C4: in every reachable state every record has
\* restart_count <= max_restart_count.
CountWithinMax(map) == \A id \in DOMAIN map : map[id].restart_count <= map[id].max_restart_count
C4_CountWithinMax == CountWithinMax(process_info_map_)

\* C4, amended: every operation other than SetMaxRestartCount preserves
\* restart_count <= max_restart_count in every record.
C4_CountWithinMaxPreserved ==
    [][(last'.op # "SetMaxRestartCount" /\ CountWithinMax(process_info_map_))
          => CountWithinMax(process_info_map_')]_vars

\* An automatic restart has just been counted and the record is within its max.
C4_Witness ==
    \E id \in Registered :
        /\ last.op = "HandleProcessFinished" /\ id \in last.tried
        /\ EmittedFor(emitted, "ProcessAutoRestarted", id)
        /\ process_info_map_[id].restart_count = 1
        /\ process_info_map_[id].max_restart_count = kStartDefaultMaxRestart

\* C5: a record that is Crashed and may not be restarted automatically is
\* still Crashed after every monitor sweep and every heartbeat sweep.
C5_CrashedStaysCrashed ==
    [][\A id \in Registered :
         (/\ process_info_map_[id].status = kCrashed
          /\ ~(process_info_map_[id].auto_restart /\ RestartAllowed(process_info_map_[id]))
          /\ last'.op \in {"MonitorProcesses", "CheckHeartbeat"})
            => GetProcessStatus(process_info_map_', id) = kCrashed]_vars

\* C6: once StopProcess has been invoked on a live process, and until the
\* operator starts or restarts the id again, the record has auto_restart
\* off and no step invokes an automatic restart of the id.
C6_StopDisablesAutoRestart ==
    \A id \in Ids :
        stop_requested[id]
          => /\ id \notin last.tried
             /\ ~EmittedFor(emitted, "ProcessAutoRestarted", id)
             /\ id \in Registered => ~process_info_map_[id].auto_restart

\* The stopped process outlived StopProcess and has now exited abnormally:
\* the record is Crashed and was not restarted.
C6_Witness ==
    \E id \in Registered :
        /\ stop_requested[id]
        /\ last.op = "HandleProcessFinished" /\ last.id = id
        /\ EmittedFor(emitted, "ProcessCrashed", id)
        /\ process_info_map_[id].status = kCrashed

\* C7: StopProcess on a registered id returns true only when the OS process
\* of the id is not alive, and false only when it is still alive.
C7_StopReturnsWhetherDead ==
    (last.op = "StopProcess" /\ last.pre # "NoRecord")
       => /\ last.ret = "true" => ~Alive(last.id)
          /\ last.ret = "false" => Alive(last.id)

\* C8: StartProcess on an id that is Running or Starting returns false,
\* starts no process, emits nothing and leaves the records and the QProcess
\* objects as they were.
C8_StartRefusedWhenActive ==
    [][(last'.op = "StartProcess" /\ last'.pre \in {kRunning, kStarting})
          => /\ last'.ret = "false"
             /\ last'.starts = 0
             /\ emitted' = <<>>
             /\ process_info_map_' = process_info_map_
             /\ qprocess' = qprocess]_vars

\* StartProcess was just refused on a record that is Starting, with its
\* process alive.
C8_Witness ==
    /\ last.op = "StartProcess" /\ last.pre = kStarting /\ last.ret = "false"
    /\ Alive(last.id)
    /\ process_info_map_[last.id].status = kStarting

\* C9: a StartProcess whose process does not start returns false and the
\* status reported for the id afterwards is Error.
C9_FailedStartIsError ==
    (last.op = "StartProcess" /\ last.starts = 1 /\ last.ret # "true")
       => last.ret = "false" /\ GetProcessStatus(process_info_map_, last.id) = kError

\* C10: every successful restart leaves restart_count one greater than it was
\* before the call and emits ProcessAutoRestarted once, with the new count.
C10_RestartIncrements ==
    [][\A id \in Ids :
         EmittedFor(emitted', "ProcessAutoRestarted", id)
            => /\ id \in DOMAIN process_info_map_ /\ id \in DOMAIN process_info_map_'
               /\ process_info_map_'[id].restart_count = process_info_map_[id].restart_count + 1
               /\ Cardinality({i \in DOMAIN emitted' :
                      emitted'[i] = ProcessAutoRestarted(id, process_info_map_'[id].restart_count)}) = 1]_vars

\* C11: every ProcessStatusChanged event carries an old status different
\* from its new status; a step that re-applies the status a record has emits
\* no such event.
C11_StatusEventsChange ==
    \A i \in DOMAIN emitted :
        emitted[i].sig = "ProcessStatusChanged" => emitted[i].old # emitted[i].new

\* The process of a record that was already Error crashed: HandleProcessError
\* applied Error again (ProcessCrashed was emitted twice) and no event
\* reports a change to Error.
C11_Witness ==
    /\ last.op = "HandleProcessFinished" /\ last.id \in Ids /\ last.pre = kError
    /\ Cardinality({i \in DOMAIN emitted : emitted[i] = ProcessCrashedSig(last.id)}) = 2
    /\ ~ChangedTo(emitted, last.id, kError)

\* C12: a message that is serialised and then deserialised from what was
\* serialised (toJson then fromJson, or toByteArray then fromByteArray of the
\* same bytes) comes back equal in every field: type, topic, msg_id,
\* timestamp, sender_id, receiver_id and body.
C12_RoundTrip ==
    (received # NoMessage /\ wire.intact) => received = message

\* The connection states of the last step of the channel: the state it began
\* in, then every state SetConnectionState changed to, in order.
IsStateChange(signal) == signal.sig = "connectionStateChanged"
StateChanges == SelectSeq(channel_emitted, IsStateChange)
StatesPassed ==
    <<channel_last.before>> \o [i \in DOMAIN StateChanges |-> StateChanges[i].state]
AllowedEdge(from, to, op) ==
    \/ from = kDisconnected /\ to = kConnecting
    \/ from = kConnecting /\ to = kInitialized
    \/ from = kInitialized /\ to = kConnected
    \/ to = kError
    \/ to = kDisconnected /\ op = "stop"

\* C13: every change of the connection state follows Disconnected ->
\* Connecting -> Initialized -> Connected, a failure edge into Error, or the
\* edge into Disconnected that stop() takes; Connected is entered only from
\* Initialized and Connecting only from Disconnected.
C13_StateMachine ==
    \A i \in 1..(Len(StatesPassed) - 1) :
        AllowedEdge(StatesPassed[i], StatesPassed[i + 1], channel_last.op)

\* C14: when stop() has returned, the connection set, both id maps and the
\* topic table are empty and the state is Disconnected; and no messageReceived
\* or clientDisconnected signal is ever emitted afterwards for a connection
\* that a stop() found.
C14_StopLeavesNothing ==
    /\ (channel_last.op = "stop" /\ ~channel_crashed) =>
          /\ clients_ = EmptyTable
          /\ logical_to_internal_id_ = EmptyTable
          /\ internal_to_logical_id_ = EmptyTable
          /\ topic_subscriptions_ = EmptyTable
          /\ connection_state_ = kDisconnected
    /\ \A i \in DOMAIN channel_emitted :
          channel_emitted[i].sig \in {"messageReceived", "clientDisconnected"} =>
             channel_emitted[i].client \notin stopped_clients
\* stop() has returned after finding a connection with a bound logical id.
C14_Witness ==
    /\ channel_last.op = "stop" /\ ~channel_crashed
    /\ channel_last.before = kConnected
    /\ stopped_clients # {}
    /\ channel_last.bound # {}

\* C15: broadcastMessage returns true only when the message was written in
\* full to every connection of clients_ (trivially so when there is none); if
\* some connection of the set got no complete write it returns false.
C15_BroadcastReachesAll ==
    (channel_last.op = "broadcastMessage" /\ channel_last.ret = "true") =>
        channel_last.written = DOMAIN clients_

\* C16: publishToTopic on a topic that has no subscriber returns true and
\* writes to no connection, whether the topic was never subscribed to or its
\* subscriber list has become empty.
C16_PublishToNobody ==
    (channel_last.op = "publishToTopic"
       /\ SubscribersOf(topic_subscriptions_, channel_last.arg) = <<>>) =>
        (channel_last.ret = "true" /\ channel_last.written = {})
\* A publish on a topic whose list is there and empty, with a connected peer.
C16_Witness ==
    /\ channel_last.op = "publishToTopic"
    /\ channel_last.arg \in DOMAIN topic_subscriptions_
    /\ topic_subscriptions_[channel_last.arg] = <<>>
    /\ ConnectedClients(ChannelEnter) # {}
    /\ channel_last.ret = "true"

\* C17: in every state the two id maps are inverses of each other (no two
\* logical ids lead to one connection, no logical id lacks its reverse entry)
\* and every mapped internal id is a connection of clients_.
C17_MappingOneToOne ==
    /\ \A l \in DOMAIN logical_to_internal_id_ :
          /\ logical_to_internal_id_[l] \in DOMAIN internal_to_logical_id_
          /\ internal_to_logical_id_[logical_to_internal_id_[l]] = l
          /\ logical_to_internal_id_[l] \in DOMAIN clients_
    /\ \A c \in DOMAIN internal_to_logical_id_ :
          /\ internal_to_logical_id_[c] \in DOMAIN logical_to_internal_id_
          /\ logical_to_internal_id_[internal_to_logical_id_[c]] = c
          /\ c \in DOMAIN clients_

\* C18: once the disconnect of a connection has been processed, neither id
\* map and no topic's subscriber list holds the connection's internal id or a
\* logical id that was bound to it.
C18_DisconnectRemovesAll ==
    (channel_last.op = "socketDisconnected"
       /\ Contains(channel_emitted, ClientDisconnected(channel_last.arg))) =>
        \A id \in {channel_last.arg} \cup channel_last.bound :
            /\ id \notin DOMAIN logical_to_internal_id_
            /\ id \notin DOMAIN internal_to_logical_id_
            /\ \A l \in DOMAIN logical_to_internal_id_ : logical_to_internal_id_[l] # id
            /\ \A c \in DOMAIN internal_to_logical_id_ : internal_to_logical_id_[c] # id
            /\ \A t \in DOMAIN topic_subscriptions_ : ~Contains(topic_subscriptions_[t], id)

\* C19: while a connection stays in clients_, a binding it has is changed by
\* no step in either direction: not by a message on the same connection that
\* declares another sender id, nor by a message on another connection that
\* declares the same logical id.
C19_BindingKept ==
    \A c \in DOMAIN clients_ \cap DOMAIN internal_to_logical_id_ :
        c \in DOMAIN clients_' =>
            /\ c \in DOMAIN internal_to_logical_id_'
            /\ internal_to_logical_id_'[c] = internal_to_logical_id_[c]
            /\ \A l \in DOMAIN logical_to_internal_id_ :
                  logical_to_internal_id_[l] = c =>
                     (l \in DOMAIN logical_to_internal_id_' /\ logical_to_internal_id_'[l] = c)
C19_FirstWriterWins == [][C19_BindingKept]_vars

\* The subscriptions that match the key of the last call.
MatchingLast == AllMatchingSubscriptions(subscribers_, store_last.key)
\* Two calls setValue(k, v) in a row, k not empty.
SetTwice ==
    /\ store_last.op = "setValue" /\ store_prev.op = "setValue"
    /\ store_last.key # <<>>
    /\ store_prev.key = store_last.key
    /\ store_prev.value = store_last.value
\* How often the two calls invoked the callbacks of a subscriber.
InvocationsOf(call, subscriber) ==
    IF \E sub \in DOMAIN call.called : sub[2] = subscriber
    THEN call.called[CHOOSE sub \in DOMAIN call.called : sub[2] = subscriber]
         * Cardinality({sub \in DOMAIN call.called : sub[2] = subscriber})
    ELSE 0

\* C20 as stated: after set(k, v), get(k) returns v, and of two calls
\* set(k, v) in a row the second changes nothing and notifies nobody, so that
\* a subscriber matching k is notified exactly once for the two.
C20_NotifiedExactlyOnce ==
    (SetTwice /\ store_last.notify /\ store_prev.notify) =>
        \A sub \in MatchingLast :
            InvocationsOf(store_prev, sub[2]) + InvocationsOf(store_last, sub[2]) = 1

\* C20: a getValue(k) that follows setValue(k, v) returns a value equal to v;
\* of two calls setValue(k, v) in a row the second changes nothing, emits
\* nothing and invokes no callback; and the first invoked the callback of
\* every subscription whose pattern matches k exactly once if it changed the
\* value and was asked to notify, and no callback otherwise.
C20_SetThenGet ==
    /\ (store_last.op = "getValue" /\ store_last.value = InvalidVariant
          /\ store_prev.op = "setValue" /\ store_prev.key = store_last.key
          /\ store_last.key # <<>>) =>
            VariantEquals(store_last.ret, store_prev.value)
    /\ SetTwice =>
          /\ ~store_last.changed
          /\ store_last.signals = <<>>
          /\ store_last.called = <<>>
          /\ store_prev.called = IF store_prev.changed /\ store_prev.notify
                                 THEN [sub \in MatchingLast |-> 1] ELSE <<>>
\* setValue(k, v) twice in a row, the first having changed the value and
\* notified a subscription.
C20_Witness ==
    /\ SetTwice
    /\ store_prev.changed /\ store_prev.notify /\ store_last.notify
    /\ MatchingLast # {}
    /\ DOMAIN store_prev.called = MatchingLast

\* C21: a restoreFromSnapshot of the snapshot createSnapshot returned leaves
\* data_ with the keys it had at the snapshot and, under every key, the value
\* it had, of the same type.
C21_SnapshotRoundTrip ==
    (store_last.op = "restoreFromSnapshot" /\ store_last.ret = BoolVariant(TRUE)) =>
        /\ DOMAIN data_ = DOMAIN snapshot_.of
        /\ \A key \in DOMAIN data_ : data_[key] = snapshot_.of[key]

\* The glob of the claim: "*" stands for any run of characters, every other
\* character for itself, and the whole key is matched.
RECURSIVE GlobMatch(_, _)
GlobMatch(pattern, key) ==
    IF pattern = <<>> THEN key = <<>>
    ELSE IF Head(pattern) = "*"
    THEN GlobMatch(Tail(pattern), key) \/ (key # <<>> /\ GlobMatch(pattern, Tail(key)))
    ELSE key # <<>> /\ Head(key) = Head(pattern) /\ GlobMatch(Tail(pattern), Tail(key))
\* A setValue that changed the value of its key and was asked to notify.
NotifyingSet == store_last.op = "setValue" /\ store_last.changed /\ store_last.notify

\* C22: a change of the value of key k by setValue invokes the callback of a
\* subscription if and only if its pattern matches k as a glob.
C22_NotifiedIffMatches ==
    NotifyingSet =>
        \A pattern \in DOMAIN subscribers_ :
            \A i \in DOMAIN subscribers_[pattern] :
                (<<pattern, subscribers_[pattern][i]>> \in DOMAIN store_last.called)
                    <=> GlobMatch(pattern, store_last.key)

\* C23: the valueChanged notifications of a key are delivered in the order
\* in which its mutations were committed to data_: none is delivered while
\* an older mutation of the key is still to be announced.
C23_CommitOrder == store_log.early = {}

\* The last call announced a change of its key to the subscribers.
Notifying == NotifyingSet \/ store_last.op = "event"
\* C24: when a change is announced, what a callback throws does not leave
\* notifySubscribers, and the callback of every subscription that matches
\* the key is invoked exactly once.
C24_SubscribersIsolated ==
    Notifying =>
        /\ ~store_last.escaped
        /\ \A sub \in AllMatchingSubscriptions(subscribers_, store_last.key) :
              sub \in DOMAIN store_last.called /\ store_last.called[sub] = 1
\* A change announced to a subscriber whose callback throws and to another
\* whose callback returns.
C24_Witness ==
    /\ Notifying
    /\ \E sub \in DOMAIN store_last.called : sub[2] \in store_callers.throwing
    /\ \E sub \in DOMAIN store_last.called : sub[2] \notin store_callers.throwing

\* How often an entry occurs in a list.
Occurrences(logs, entry) == Cardinality({i \in DOMAIN logs : logs[i] = entry})
\* What the backend registered under an id returns for the condition of the
\* last call.
BackendResult(id) == StorageQueryLogs(storages[m_storage_instances[id]], log_last.condition)
\* How often an entry occurs in the results of the backends registered under
\* the ids of a list.
RECURSIVE OccurrencesInBackends(_, _)
OccurrencesInBackends(ids, entry) ==
    IF ids = <<>> THEN 0
    ELSE Occurrences(BackendResult(Head(ids)), entry)
         + OccurrencesInBackends(Tail(ids), entry)

\* C25: queryAllLogs returns every entry as often as the results of the
\* registered backends hold it together, in non-decreasing order of
\* timestamp.
C25_QueryMergesAll ==
    log_last.op = "queryAllLogs" =>
        /\ \A entry \in LogEntries :
              Occurrences(log_last.all_logs, entry)
                 = OccurrencesInBackends(RegisteredIds(m_storage_instances), entry)
        /\ \A i \in DOMAIN log_last.all_logs : log_last.all_logs[i] \in LogEntries
        /\ \A i, j \in DOMAIN log_last.all_logs :
              i < j => log_last.all_logs[i].timestamp <= log_last.all_logs[j].timestamp
\* A query over two backends, the first of which holds a later entry than
\* the second.
C25_Witness ==
    /\ log_last.op = "queryAllLogs"
    /\ DOMAIN m_storage_instances = LogProcessIds
    /\ \E i \in DOMAIN BackendResult(LogIdOrder[1]), j \in DOMAIN BackendResult(LogIdOrder[2]) :
          BackendResult(LogIdOrder[1])[i].timestamp > BackendResult(LogIdOrder[2])[j].timestamp

\* C26: writeLog calls writeLog of the backend registered under the entry's
\* source_process and of no other; with no backend under that id, or an
\* empty id, it calls none and returns false.  So a backend holds entries of
\* its own id only.
C26_WriteRouted ==
    /\ log_last.op = "writeLog" =>
          IF log_last.entry.source_process # ""
             /\ log_last.entry.source_process \in DOMAIN log_last.before
          THEN log_last.delivered = {log_last.before[log_last.entry.source_process]}
          ELSE log_last.delivered = {} /\ ~log_last.ret
    /\ \A id \in DOMAIN m_storage_instances :
          \A i \in DOMAIN storages[m_storage_instances[id]].entries :
              storages[m_storage_instances[id]].entries[i].source_process = id
\* An entry written to one of two registered backends.
C26_Witness ==
    /\ log_last.op = "writeLog" /\ log_last.ret
    /\ DOMAIN m_storage_instances = LogProcessIds
    /\ log_last.delivered # {}

\* The last call registered a backend under an id that had one.
Reregistered ==
    log_last.op = "registerStorage" /\ log_last.ret /\ log_last.id \in DOMAIN log_last.before
\* C27: after a successful registerStorage on a registered id the id owns
\* the backend the call created, connected to the aggregator; the backend it
\* owned before is stopped, disconnected and gone, none of its events was
\* forwarded by the call, and no call writes to a backend that is gone.
C27_ReplacesBackend ==
    /\ Reregistered =>
          /\ m_storage_instances[log_last.id] = Len(storages)
          /\ m_storage_instances[log_last.id] # log_last.before[log_last.id]
          /\ storages[Len(storages)].connected /\ ~storages[Len(storages)].destroyed
          /\ ~storages[log_last.before[log_last.id]].m_running_
          /\ ~storages[log_last.before[log_last.id]].connected
          /\ storages[log_last.before[log_last.id]].destroyed
          /\ \A i \in DOMAIN log_last.signals :
                log_last.signals[i].sig \notin {"storageHealthChanged", "logWrittenToProcess"}
    /\ \A h \in log_last.delivered : h \in {log_last.before[id] : id \in DOMAIN log_last.before}
C27_Witness == Reregistered /\ Cardinality(DOMAIN m_storage_instances) = 2

\* The ids whose backend has a result for the condition of the last call.
NonEmptyIds == {id \in DOMAIN m_storage_instances : BackendResult(id) # <<>>}
BackendStatistics(id) ==
    StorageGetStatistics(storages[m_storage_instances[id]], log_last.condition)
RECURSIVE SumOverBackends(_, _)
SumOverBackends(ids, field) ==
    IF ids = <<>> THEN 0
    ELSE BackendStatistics(Head(ids))[field] + SumOverBackends(Tail(ids), field)
\* C28: the aggregated count and size are the sums over the registered
\* backends, and the aggregated earliest and latest times are the least
\* earliest and the greatest latest time of the backends with a result.
C28_StatisticsAggregated ==
    log_last.op = "getAggregatedStatistics" =>
        /\ log_last.stats.total_count
              = SumOverBackends(RegisteredIds(m_storage_instances), "total_count")
        /\ log_last.stats.total_size_bytes
              = SumOverBackends(RegisteredIds(m_storage_instances), "total_size_bytes")
        /\ IF NonEmptyIds = {}
           THEN log_last.stats.earliest_time = InvalidTime
                /\ log_last.stats.latest_time = InvalidTime
           ELSE /\ \E id \in NonEmptyIds :
                      log_last.stats.earliest_time = BackendStatistics(id).earliest_time
                /\ \A id \in NonEmptyIds :
                      log_last.stats.earliest_time <= BackendStatistics(id).earliest_time
                /\ \E id \in NonEmptyIds :
                      log_last.stats.latest_time = BackendStatistics(id).latest_time
                /\ \A id \in NonEmptyIds :
                      log_last.stats.latest_time >= BackendStatistics(id).latest_time
\* C29: StartProcess, StopProcess and RestartProcess never wait for an OS
\* process to start or to exit while process_mutex_ is held.
C29_NoWaitUnderLock ==
    last.op \in {"StartProcess", "StopProcess", "RestartProcess"} => ~last.locked_wait

\* C30: StopAllProcesses is two-phase.  Its first step leaves every record
\* that was Running with status Stopping and auto_restart off; and when the
\* polling ends at the deadline, every QProcess of the snapshot that is still
\* running gets kill().  (The polling phase holds no lock in the model:
\* every other step stays enabled while stop_all.pc = "polling".)
StopAllFirstStep == stop_all.pc = "idle" /\ last'.op = "StopAllProcesses"
StopAllDeadline ==
    /\ stop_all.pc = "polling"
    /\ stop_all'.pc = "idle"
    /\ \E h \in stop_all.procs : qprocess[h] = QRunning
C30_StopAllTwoPhase ==
    [][/\ StopAllFirstStep =>
            \A id \in DOMAIN process_info_map_ :
               process_info_map_[id].status = kRunning =>
                  /\ id \in DOMAIN process_info_map_'
                  /\ process_info_map_'[id].status = kStopping
                  /\ ~process_info_map_'[id].auto_restart
                  /\ stop_all'.pc = "polling"
       /\ StopAllDeadline =>
            \A h \in stop_all.procs :
               qprocess[h] = QRunning =>
                  h \in StopAllKilled(process_info_map_, qprocess, stop_all.list)]_vars

\* C31: a StopProcess or RestartProcess call on a live process returns: the
\* exit handler delivered inside the call's wait never blocks it for ever.
C31_StopAndRestartReturn ==
    last.op \in {"StopProcess", "RestartProcess"} => last.ret # "hung"

\* C32: when StopAllProcesses returns, every QProcess that is still running
\* was signalled by the call: terminate() in its first step or kill() at
\* the deadline.  A call that returns at once signalled nothing.
StopAllReturns == last'.op = "StopAllProcesses" /\ last'.ret = "true"
StopAllSignalled ==
    IF stop_all.pc = "idle" THEN {}
    ELSE stop_all.procs \cup StopAllKilled(process_info_map_, qprocess, stop_all.list)
C32_StopAllLeavesNoneAlive ==
    [][StopAllReturns => \A h \in Pool : qprocess[h] = QRunning => h \in StopAllSignalled]_vars

\* C33: every running OS process is the one its id's record holds, so an id
\* has at most one live process and no live handle is dropped.
C33_OneLiveProcessPerId ==
    \A h \in Pool : qprocess[h] = QRunning =>
        \E id \in DOMAIN process_info_map_ : process_info_map_[id].process = h

\* C34: a record whose status is Stopping eventually is NotRunning or
\* Crashed (or is cleaned up).
IsStopping(id) ==
    id \in DOMAIN process_info_map_ /\ process_info_map_[id].status = kStopping
HasStopped(id) ==
    \/ id \notin DOMAIN process_info_map_
    \/ process_info_map_[id].status \in {kNotRunning, kCrashed}
C34_StoppingIsTransient == \A id \in Ids : IsStopping(id) ~> HasStopped(id)

\* C35: while the channel is Connected, also after a stop() and a new
\* start(), a message that arrives is dispatched as messageReceived and a
\* peer that disconnects is removed from clients_.
C35_RestartedChannelDispatches ==
    /\ (channel_last.op = "readyRead" /\ channel_last.before = kConnected) =>
          \E i \in DOMAIN channel_emitted : channel_emitted[i].sig = "messageReceived"
    /\ (channel_last.op = "socketDisconnected" /\ channel_last.before = kConnected) =>
          channel_last.arg \notin DOMAIN clients_

\* C36: publishToTopic(T, m) writes m to the connection of every connected
\* peer whose logical id is subscribed to T (or reports a failed write).
C36_PublishReachesSubscribers ==
    channel_last.op = "publishToTopic" =>
       \A logical_id \in DOMAIN logical_to_internal_id_ :
          (/\ Contains(SubscribersOf(topic_subscriptions_, channel_last.arg), logical_id)
           /\ logical_to_internal_id_[logical_id] \in ConnectedClients(ChannelEnter)) =>
             \/ logical_to_internal_id_[logical_id] \in channel_last.written
             \/ channel_last.ret = "false"

\* C37: for every connection, the frames dispatched so far are the
\* non-empty newline-terminated frames of the bytes its peer has sent, in
\* order, and the buffer of a live connection holds the bytes after the last
\* newline.
RECURSIVE FramesOf(_, _)
FramesOf(stream, frame) ==
    IF stream = <<>> THEN <<>>
    ELSE IF Head(stream) = Newline
    THEN (IF frame = <<>> THEN <<>> ELSE <<frame>>) \o FramesOf(Tail(stream), <<>>)
    ELSE FramesOf(Tail(stream), Append(frame, Head(stream)))
RECURSIVE Unterminated(_, _)
Unterminated(stream, frame) ==
    IF stream = <<>> THEN frame
    ELSE IF Head(stream) = Newline THEN Unterminated(Tail(stream), <<>>)
    ELSE Unterminated(Tail(stream), Append(frame, Head(stream)))
C37_InboundFraming ==
    \A c \in Connections :
       /\ dispatched[c] = FramesOf(peer_sent[c], <<>>)
       /\ c \in DOMAIN clients_ => receive_buffers_[c] = Unterminated(peer_sent[c], <<>>)

\* C38: every outbound path writes the message as its compact JSON text
\* followed by exactly one newline and nothing else, so that a reader that
\* frames by newline gets exactly that text.
OutboundOps == {"sendMessage", "sendMessageToClient", "broadcastMessage", "publishToTopic"}
NewlineFramed(block) ==
    IF block.newlines = 0 THEN <<>>
    ELSE <<IF block.prefix = 0 THEN block.data ELSE NotJson>>
C38_OneWireFrame ==
    (channel_last.op \in OutboundOps /\ channel_last.written # {}) =>
       /\ channel_last.block.prefix = 0
       /\ channel_last.block.newlines = 1
       /\ channel_last.block.data.json_text
       /\ NewlineFramed(channel_last.block) = <<channel_last.block.data>>


\* The calls that announce changes: setValue, removeValue, clear and
\* restoreFromSnapshot, and the queued lambdas of removeValue and clear.
Dispatching == {"setValue", "removeValue", "clear", "restoreFromSnapshot", "event"}
\* C39: data_mutex_ is never held while valueChanged is emitted or a
\* subscriber callback runs, whether the change comes from setValue,
\* removeValue, clear or restoreFromSnapshot, and no call takes the mutex
\* while it holds it; so a callback that calls back into the store finds the
\* mutex free.
C39_NoDispatchUnderLock ==
    store_last.op \in Dispatching => ~store_last.held /\ ~store_last.relocked
\* A setValue that emitted valueChanged and invoked a callback.
C39_Witness ==
    /\ store_last.op = "setValue"
    /\ store_last.signals # <<>>
    /\ store_last.called # <<>>

\* C40: a registerStorage that returns false on an id that had a backend
\* leaves the aggregator as it was: the id still owns that backend, and
\* every backend is as it was before the call, running and connected if it
\* was.
C40_FailedRegisterKeeps ==
    [][(/\ log_last'.op = "registerStorage"
        /\ ~log_last'.ret
        /\ log_last'.id \in DOMAIN m_storage_instances)
       => /\ m_storage_instances' = m_storage_instances
          /\ \A h \in DOMAIN storages : storages'[h] = storages[h]]_vars
====
